---------------------------- MODULE Spec2Model ----------------------------
(***************************************************************************)
(* Chess Engine Arena: the rules engine (src/board.py), the pairing        *)
(* algorithms and tournament controller, and the match runner              *)
(* (src/tournament.py) with its protocol clients (src/engine.py).          *)
(*                                                                         *)
(* Python objects are modelled as records and their methods as operators   *)
(* from a record to the record after the call.  Strings that the code      *)
(* indexes (UCI moves, square names, SAN) are sequences of one-character   *)
(* strings.                                                                *)
(***************************************************************************)
EXTENDS Integers, Sequences, FiniteSets, TLC

VARIABLES
    B,      \* the Board object under test (SpecBoard)
    call,   \* the last public call made and how it ended
    T,      \* the Tournament object
    R,      \* the window's TournamentRunner and the runner threads alive
    E       \* a UCIEngine object, its process and the clock

vars == <<B, call, T, R, E>>

----------------------------------------------------------------------------
(* constants.py *)

ROOK_D   == {<<1, 0>>, <<-1, 0>>, <<0, 1>>, <<0, -1>>}
BISHOP_D == {<<1, 1>>, <<1, -1>>, <<-1, 1>>, <<-1, -1>>}
QUEEN_D  == ROOK_D \cup BISHOP_D
KNIGHT_D == {<<2, 1>>, <<2, -1>>, <<-2, 1>>, <<-2, -1>>,
             <<1, 2>>, <<1, -2>>, <<-1, 2>>, <<-1, -2>>}
KING_D   == ROOK_D \cup BISHOP_D

\* START_FEN = "rnbqkbnr/pppppppp/8/8/8/8/PPPPPPPP/RNBQKBNR w KQkq - 0 1",
\* split into its six fields, the placement into its '/'-separated rows of
\* characters and the castling field into its set of flags.
START_FEN ==
    [rows |-> <<  <<"r","n","b","q","k","b","n","r">>,
                  <<"p","p","p","p","p","p","p","p">>,
                  <<"8">>, <<"8">>, <<"8">>, <<"8">>,
                  <<"P","P","P","P","P","P","P","P">>,
                  <<"R","N","B","Q","K","B","N","R">>  >>,
     turn |-> "w", castling |-> {"K", "Q", "k", "q"},
     ep |-> <<"-">>, halfmove |-> 0, fullmove |-> 1]

----------------------------------------------------------------------------
(* Characters *)

WhitePieces == {"K", "Q", "R", "B", "N", "P"}
BlackPieces == {"k", "q", "r", "b", "n", "p"}

\* str.lower() on a board cell or a promotion letter
lower(p) ==
    CASE p = "K" -> "k" [] p = "Q" -> "q" [] p = "R" -> "r"
      [] p = "B" -> "b" [] p = "N" -> "n" [] p = "P" -> "p"
      [] OTHER -> p

\* str.upper() on a piece letter
upper(p) ==
    CASE p = "k" -> "K" [] p = "q" -> "Q" [] p = "r" -> "R"
      [] p = "b" -> "B" [] p = "n" -> "N" [] p = "p" -> "P"
      [] OTHER -> p

isupper(p) == p \in WhitePieces

FileChars == <<"a", "b", "c", "d", "e", "f", "g", "h">>
Digits    == {"0", "1", "2", "3", "4", "5", "6", "7", "8", "9"}

\* ord(ch) - ord('a') for the lower-case letters the model's inputs use
OrdMinusA(ch) ==
    CASE ch = "a" -> 0 [] ch = "b" -> 1 [] ch = "c" -> 2 [] ch = "d" -> 3
      [] ch = "e" -> 4 [] ch = "f" -> 5 [] ch = "g" -> 6 [] ch = "h" -> 7
      [] ch = "i" -> 8 [] ch = "x" -> 23 [] ch = "z" -> 25
      [] OTHER -> 99

\* int(ch) for a decimal digit
IntOf(ch) ==
    CASE ch = "0" -> 0 [] ch = "1" -> 1 [] ch = "2" -> 2 [] ch = "3" -> 3
      [] ch = "4" -> 4 [] ch = "5" -> 5 [] ch = "6" -> 6 [] ch = "7" -> 7
      [] ch = "8" -> 8 [] ch = "9" -> 9

\* str(n) for 1..8
StrOf(n) ==
    CASE n = 1 -> "1" [] n = 2 -> "2" [] n = 3 -> "3" [] n = 4 -> "4"
      [] n = 5 -> "5" [] n = 6 -> "6" [] n = 7 -> "7" [] n = 8 -> "8"
      [] OTHER -> "?"

\* chr(ord('a') + c)
ChrA(c) == FileChars[c + 1]

\* f"{chr(ord('a') + c)}{8 - r}"
SquareName(r, c) == <<ChrA(c), StrOf(8 - r)>>

NoPromo == "None"

----------------------------------------------------------------------------
(* utils.valid *)

valid(r, c) == r >= 0 /\ r < 8 /\ c >= 0 /\ c < 8

----------------------------------------------------------------------------
(* Board: piece helpers *)

is_w(p) == p \notin {".", ""} /\ isupper(p)
is_b(p) == p \notin {".", ""} /\ p \in BlackPieces

same(p1, p2) == (is_w(p1) /\ is_w(p2)) \/ (is_b(p1) /\ is_b(p2))

enemy(p, turn) == IF turn = "w" THEN is_b(p) ELSE is_w(p)

Opp(t) == IF t = "w" THEN "b" ELSE "w"

Squares == (0..7) \X (0..7)

\* the first square, in row-major order, holding the king of `turn`; None
\* (here <<>>) when there is none
find_king(g, turn) ==
    LET k  == IF turn = "w" THEN "K" ELSE "k"
        ks == {s \in Squares : g[s[1]][s[2]] = k}
    IN  IF ks = {} THEN <<>>
        ELSE CHOOSE s \in ks : \A t \in ks :
                 s[1] < t[1] \/ (s[1] = t[1] /\ s[2] <= t[2])

\* ep as (row, col): 8 - int(ep[1]), ord(ep[0]) - ord('a')
EpRow(ep) == 8 - IntOf(ep[2])
EpCol(ep) == OrdMinusA(ep[1])

----------------------------------------------------------------------------
(* Board: attack detection *)

\* the first non-empty cell walking from (r, c) in direction (dr, dc),
\* "." when the walk leaves the board
RECURSIVE FirstBlocker(_, _, _, _, _)
FirstBlocker(g, r, c, dr, dc) ==
    IF ~valid(r, c) THEN "."
    ELSE IF g[r][c] # "." THEN g[r][c]
    ELSE FirstBlocker(g, r + dr, c + dc, dr, dc)

is_attacked(g, r, c, by) ==
    LET has(p) == IF by = "w" THEN is_w(p) ELSE is_b(p)
        at(d, ch) == valid(r + d[1], c + d[2])
                     /\ lower(g[r + d[1]][c + d[2]]) = ch
                     /\ has(g[r + d[1]][c + d[2]])
        slide(d, chars) ==
            LET p == FirstBlocker(g, r + d[1], c + d[2], d[1], d[2])
            IN  p # "." /\ lower(p) \in chars /\ has(p)
        pawn_dirs == IF by = "w" THEN {<<1, -1>>, <<1, 1>>}
                     ELSE {<<-1, -1>>, <<-1, 1>>}
    IN  \/ \E d \in KNIGHT_D : at(d, "n")
        \/ \E d \in ROOK_D : slide(d, {"q", "r"})
        \/ \E d \in BISHOP_D : slide(d, {"q", "b"})
        \/ \E d \in KING_D : at(d, "k")
        \/ \E d \in pawn_dirs : at(d, "p")

\* Board.in_check(turn) on grid g
in_check_grid(g, t) ==
    LET k == find_king(g, t)
    IN  IF k = <<>> THEN FALSE
        ELSE is_attacked(g, k[1], k[2], Opp(t))

in_check(b, t) == in_check_grid(b.board, t)

----------------------------------------------------------------------------
(* Board: pseudo-legal move generation *)

\* the squares a sliding piece of side `turn` reaches walking from (r, c)
\* in direction (dr, dc): empty squares, then the first enemy piece
RECURSIVE SlideTargets(_, _, _, _, _, _)
SlideTargets(g, r, c, dr, dc, turn) ==
    IF ~valid(r, c) THEN {}
    ELSE IF g[r][c] = "." THEN
        {<<r, c>>} \cup SlideTargets(g, r + dr, c + dc, dr, dc, turn)
    ELSE IF enemy(g[r][c], turn) THEN {<<r, c>>}
    ELSE {}

PromoLetters == {"q", "r", "b", "n"}

\* a pawn generator that looks for the double step on the other side's rank
pseudo_pawn_swapped_start(b, r, c, turn) ==
    LET g       == b.board
        fwd     == IF turn = "w" THEN -1 ELSE 1
        start_r == IF turn = "w" THEN 1 ELSE 6
        promo_r == IF turn = "w" THEN 0 ELSE 7
        nr      == r + fwd
        forward ==
            IF valid(nr, c) /\ g[nr][c] = "." THEN
                IF nr = promo_r THEN {<<r, c, nr, c, pp>> : pp \in PromoLetters}
                ELSE {<<r, c, nr, c, NoPromo>>} \cup
                     (IF r = start_r /\ g[r + 2 * fwd][c] = "."
                      THEN {<<r, c, r + 2 * fwd, c, NoPromo>>} ELSE {})
            ELSE {}
        capture(dc) ==
            LET nc == c + dc
            IN  IF ~valid(nr, nc) THEN {}
                ELSE
                LET is_cap == enemy(g[nr][nc], turn)
                    is_ep  == b.ep # <<"-">> /\ nr = EpRow(b.ep)
                              /\ nc = EpCol(b.ep)
                IN  IF is_cap \/ is_ep THEN
                        IF nr = promo_r
                        THEN {<<r, c, nr, nc, pp>> : pp \in PromoLetters}
                        ELSE {<<r, c, nr, nc, NoPromo>>}
                    ELSE {}
    IN  forward \cup capture(-1) \cup capture(1)

\* Board._pseudo(r, c) for a pawn
pseudo_pawn(b, r, c, turn) ==
    LET g       == b.board
        fwd     == IF turn = "w" THEN -1 ELSE 1
        start_r == IF turn = "w" THEN 6 ELSE 1
        promo_r == IF turn = "w" THEN 0 ELSE 7
        nr      == r + fwd
        forward ==
            IF valid(nr, c) /\ g[nr][c] = "." THEN
                IF nr = promo_r THEN {<<r, c, nr, c, pp>> : pp \in PromoLetters}
                ELSE {<<r, c, nr, c, NoPromo>>} \cup
                     (IF r = start_r /\ g[r + 2 * fwd][c] = "."
                      THEN {<<r, c, r + 2 * fwd, c, NoPromo>>} ELSE {})
            ELSE {}
        capture(dc) ==
            LET nc == c + dc
            IN  IF ~valid(nr, nc) THEN {}
                ELSE
                LET is_cap == enemy(g[nr][nc], turn)
                    is_ep  == b.ep # <<"-">> /\ nr = EpRow(b.ep)
                              /\ nc = EpCol(b.ep)
                IN  IF is_cap \/ is_ep THEN
                        IF nr = promo_r
                        THEN {<<r, c, nr, nc, pp>> : pp \in PromoLetters}
                        ELSE {<<r, c, nr, nc, NoPromo>>}
                    ELSE {}
    IN  forward \cup capture(-1) \cup capture(1)

\* a king generator that does not look at the square the king passes
pseudo_king_blind_passing(b, r, c, turn) ==
    LET g     == b.board
        piece == g[r][c]
        steps == {<<r, c, r + d[1], c + d[2], NoPromo>> : d \in
                    {d \in KING_D : valid(r + d[1], c + d[2])
                                    /\ ~same(piece, g[r + d[1]][c + d[2]])}}
        opp   == Opp(turn)
        kr    == IF turn = "w" THEN 7 ELSE 0
        kc    == 4
        ks    == IF turn = "w" THEN "K" ELSE "k"
        qs    == IF turn = "w" THEN "Q" ELSE "q"
        rp    == IF turn = "w" THEN "R" ELSE "r"
        cas   == b.castling
        kingside ==
            IF /\ ks \in cas
               /\ g[kr][5] = "." /\ g[kr][6] = "."
               /\ g[kr][7] = rp
               /\ ~is_attacked(g, kr, 6, opp)
            THEN {<<r, c, kr, kc + 2, NoPromo>>} ELSE {}
        queenside ==
            IF /\ qs \in cas
               /\ g[kr][3] = "." /\ g[kr][2] = "."
               /\ g[kr][1] = "." /\ g[kr][0] = rp
               /\ ~is_attacked(g, kr, 2, opp)
            THEN {<<r, c, kr, kc - 2, NoPromo>>} ELSE {}
    IN  steps \cup
        (IF r = kr /\ c = kc /\ ~is_attacked(g, kr, kc, opp)
         THEN kingside \cup queenside ELSE {})

\* Board._pseudo(r, c) for a king
pseudo_king(b, r, c, turn) ==
    LET g     == b.board
        piece == g[r][c]
        steps == {<<r, c, r + d[1], c + d[2], NoPromo>> : d \in
                    {d \in KING_D : valid(r + d[1], c + d[2])
                                    /\ ~same(piece, g[r + d[1]][c + d[2]])}}
        opp   == Opp(turn)
        kr    == IF turn = "w" THEN 7 ELSE 0
        kc    == 4
        ks    == IF turn = "w" THEN "K" ELSE "k"
        qs    == IF turn = "w" THEN "Q" ELSE "q"
        rp    == IF turn = "w" THEN "R" ELSE "r"
        cas   == b.castling
        kingside ==
            IF /\ ks \in cas
               /\ g[kr][5] = "." /\ g[kr][6] = "."
               /\ g[kr][7] = rp
               /\ ~is_attacked(g, kr, 5, opp)
               /\ ~is_attacked(g, kr, 6, opp)
            THEN {<<r, c, kr, kc + 2, NoPromo>>} ELSE {}
        queenside ==
            IF /\ qs \in cas
               /\ g[kr][3] = "." /\ g[kr][2] = "."
               /\ g[kr][1] = "." /\ g[kr][0] = rp
               /\ ~is_attacked(g, kr, 3, opp)
               /\ ~is_attacked(g, kr, 2, opp)
            THEN {<<r, c, kr, kc - 2, NoPromo>>} ELSE {}
    IN  steps \cup
        (IF r = kr /\ c = kc /\ ~is_attacked(g, kr, kc, opp)
         THEN kingside \cup queenside ELSE {})

\* Board._pseudo(r, c)
pseudo(b, r, c) ==
    LET g     == b.board
        piece == g[r][c]
        p     == lower(piece)
        turn  == IF isupper(piece) THEN "w" ELSE "b"
    IN  IF piece = "." THEN {}
        ELSE IF p = "p" THEN pseudo_pawn(b, r, c, turn)
        ELSE IF p = "n" THEN
            {<<r, c, r + d[1], c + d[2], NoPromo>> : d \in
                {d \in KNIGHT_D : valid(r + d[1], c + d[2])
                                  /\ ~same(piece, g[r + d[1]][c + d[2]])}}
        ELSE IF p \in {"b", "r", "q"} THEN
            LET dirs == IF p = "b" THEN BISHOP_D
                        ELSE IF p = "r" THEN ROOK_D ELSE QUEEN_D
            IN  UNION {{<<r, c, t[1], t[2], NoPromo>> :
                          t \in SlideTargets(g, r + d[1], c + d[2],
                                             d[1], d[2], turn)} : d \in dirs}
        ELSE IF p = "k" THEN pseudo_king(b, r, c, turn)
        ELSE {}

----------------------------------------------------------------------------
(* Board: raw move application *)

HomeRooks == {<<7, 7, "K">>, <<7, 0, "Q">>, <<0, 7, "k">>, <<0, 0, "q">>}

\* the castling flags left after a move of piece kind p from (fr, fc) to
\* (tr, tc) by side `turn`
castling_after(cas, p, turn, fr, fc, tr, tc) ==
    LET c1 == IF p = "k"
              THEN cas \ (IF turn = "w" THEN {"K", "Q"} ELSE {"k", "q"})
              ELSE cas
        c2 == IF p = "r"
              THEN c1 \ {h[3] : h \in {h \in HomeRooks : fr = h[1] /\ fc = h[2]}}
              ELSE c1
    IN  c2 \ {h[3] : h \in {h \in HomeRooks : tr = h[1] /\ tc = h[2]}}

\* a halfmove clock that only a capture on the target cell resets
halfmove_after_takes_only(hm, p, target) ==
    IF target # "." THEN 0 ELSE hm + 1

\* the halfmove clock after a move of piece kind p onto a cell holding target
halfmove_after(hm, p, target) ==
    IF p = "p" \/ target # "." THEN 0 ELSE hm + 1

\* the en-passant target after a move of piece kind p from row fr to row tr
ep_after(p, fr, fc, tr) ==
    IF p = "p" /\ (fr - tr = 2 \/ tr - fr = 2)
    THEN SquareName((fr + tr) \div 2, fc)
    ELSE <<"-">>

\* Board._apply_raw(fr, fc, tr, tc, promo): a new Board, without history
apply_raw(b, mv) ==
    LET fr == mv[1]  fc == mv[2]  tr == mv[3]  tc == mv[4]  promo == mv[5]
        g0     == b.board
        piece  == g0[fr][fc]
        target == g0[tr][tc]
        p      == lower(piece)
        turn   == b.turn
        \* en-passant capture
        g1 == IF p = "p" /\ b.ep # <<"-">> /\ tr = EpRow(b.ep) /\ tc = EpCol(b.ep)
              THEN [g0 EXCEPT ![fr][EpCol(b.ep)] = "."]
              ELSE g0
        \* castling: move the rook
        g2 == IF p = "k" /\ fc = 4 /\ tc = 6
              THEN [g1 EXCEPT ![fr][7] = ".",
                              ![fr][5] = IF turn = "w" THEN "R" ELSE "r"]
              ELSE IF p = "k" /\ fc = 4 /\ tc = 2
              THEN [g1 EXCEPT ![fr][0] = ".",
                              ![fr][3] = IF turn = "w" THEN "R" ELSE "r"]
              ELSE g1
        g3 == [[g2 EXCEPT ![tr][tc] = piece] EXCEPT ![fr][fc] = "."]
        \* promotion
        g4 == IF promo # NoPromo
              THEN [g3 EXCEPT ![tr][tc] =
                        IF turn = "w" THEN upper(promo) ELSE lower(promo)]
              ELSE IF p = "p" /\ (tr = 0 \/ tr = 7)
              THEN [g3 EXCEPT ![tr][tc] = IF turn = "w" THEN "Q" ELSE "q"]
              ELSE g3
    IN  [board        |-> g4,
         turn         |-> Opp(turn),
         castling     |-> castling_after(b.castling, p, turn, fr, fc, tr, tc),
         ep           |-> ep_after(p, fr, fc, tr),
         halfmove     |-> halfmove_after(b.halfmove, p, target),
         fullmove     |-> IF turn = "b" THEN b.fullmove + 1 ELSE b.fullmove,
         move_history |-> <<>>,
         pos_history  |-> <<>>,
         cap_white    |-> <<>>,
         cap_black    |-> <<>>]

----------------------------------------------------------------------------
(* Board: legal move generation *)

\* legal_moves without its filter: every pseudo-legal move is kept
keeps_king_safe_unfiltered(b, mv, t) == TRUE

\* a filter that looks at the king of the other side
keeps_king_safe_other_side(b, mv, t) == ~in_check(apply_raw(b, mv), Opp(t))

\* whether pseudo-legal move mv of side t survives the filter of legal_moves
keeps_king_safe(b, mv, t) == ~in_check(apply_raw(b, mv), t)

\* Board.legal_moves(turn), as the set of its members
legal_moves_of(b, t) ==
    UNION {{mv \in pseudo(b, s[1], s[2]) : keeps_king_safe(b, mv, t)} :
           s \in {s \in Squares :
                     /\ b.board[s[1]][s[2]] # "."
                     /\ (t = "w") = isupper(b.board[s[1]][s[2]])}}

\* Board.legal_moves() for the side to move
legal_moves(b) == legal_moves_of(b, b.turn)

----------------------------------------------------------------------------
(* Board: FEN import and export *)

RECURSIVE ExpandRow(_)
\* one placement row of a FEN, digits expanded to that many "."
ExpandRow(row_str) ==
    IF row_str = <<>> THEN <<>>
    ELSE LET ch == Head(row_str)
         IN  (IF ch \in Digits THEN [i \in 1..IntOf(ch) |-> "."] ELSE <<ch>>)
             \o ExpandRow(Tail(row_str))

\* Board._load_fen(fen): the position fields a FEN sets
load_fen(fen) ==
    [board    |-> [r \in 0..7 |->
                     LET cells == ExpandRow(fen.rows[r + 1])
                     IN  [c \in 0..7 |-> cells[c + 1]]],
     turn     |-> fen.turn,
     castling |-> fen.castling,
     ep       |-> fen.ep,
     halfmove |-> fen.halfmove,
     fullmove |-> fen.fullmove]

RECURSIVE FenRowFrom(_, _, _)
\* the run-length encoding of cells c..7 of a row, e empty cells pending
FenRowFrom(row, c, e) ==
    LET flush == IF e > 0 THEN <<StrOf(e)>> ELSE <<>>
    IN  IF c > 7 THEN flush
        ELSE IF row[c] = "." THEN FenRowFrom(row, c + 1, e + 1)
        ELSE flush \o <<row[c]>> \o FenRowFrom(row, c + 1, 0)

\* Board.to_fen(), as its six fields
to_fen(b) ==
    [rows     |-> [r \in 1..8 |-> FenRowFrom(b.board[r - 1], 0, 0)],
     turn     |-> b.turn,
     castling |-> b.castling,
     ep       |-> b.ep,
     halfmove |-> b.halfmove,
     fullmove |-> b.fullmove]

\* the first four fields of a FEN
fen_key(fen) == <<fen.rows, fen.turn, fen.castling, fen.ep>>

\* Board._pos_key()
pos_key(b) == fen_key(to_fen(b))

\* Board.__init__(): the start position with empty histories
NewBoard ==
    LET f == load_fen(START_FEN)
    IN  [board        |-> f.board,
         turn         |-> f.turn,
         castling     |-> f.castling,
         ep           |-> f.ep,
         halfmove     |-> f.halfmove,
         fullmove     |-> f.fullmove,
         move_history |-> <<>>,
         pos_history  |-> <<>>,
         cap_white    |-> <<>>,
         cap_black    |-> <<>>]

\* dict.get(key, 0)
dict_get(d, key) == IF key \in DOMAIN d THEN d[key] ELSE 0

\* d[key] = value
dict_set(d, key, value) ==
    [k \in (DOMAIN d) \cup {key} |-> IF k = key THEN value ELSE d[k]]

----------------------------------------------------------------------------
(* Board: SAN *)

\* a _build_san that tells two like pieces apart by the file alone
build_san_file_only(b, fr, fc, tr, tc, promo, legal) ==
    LET g      == b.board
        piece  == g[fr][fc]
        p      == lower(piece)
        target == g[tr][tc]
        is_cap == target # "." \/
                  (p = "p" /\ b.ep # <<"-">> /\ tc = EpCol(b.ep) /\ tr = EpRow(b.ep))
        to_sq  == SquareName(tr, tc)
        suffix == IF promo # NoPromo THEN <<"=", upper(promo)>> ELSE <<>>
        ambig  == {m \in legal : /\ m[3] = tr /\ m[4] = tc /\ m[5] = promo
                                 /\ lower(g[m[1]][m[2]]) = p
                                 /\ ~(m[1] = fr /\ m[2] = fc)}
        dis    == IF ambig = {} THEN <<>> ELSE <<ChrA(fc)>>
    IN  IF p = "k" /\ fc = 4 /\ tc = 6 THEN <<"O", "-", "O">>
        ELSE IF p = "k" /\ fc = 4 /\ tc = 2 THEN <<"O", "-", "O", "-", "O">>
        ELSE IF p = "p" THEN
            (IF is_cap THEN <<ChrA(fc), "x">> \o to_sq ELSE to_sq) \o suffix
        ELSE <<upper(p)>> \o dis \o (IF is_cap THEN <<"x">> ELSE <<>>)
             \o to_sq \o suffix

\* Board._build_san(fr, fc, tr, tc, promo, legal)
build_san(b, fr, fc, tr, tc, promo, legal) ==
    LET g      == b.board
        piece  == g[fr][fc]
        p      == lower(piece)
        target == g[tr][tc]
        is_cap == target # "." \/
                  (p = "p" /\ b.ep # <<"-">> /\ tc = EpCol(b.ep) /\ tr = EpRow(b.ep))
        to_sq  == SquareName(tr, tc)
        suffix == IF promo # NoPromo THEN <<"=", upper(promo)>> ELSE <<>>
        ambig  == {m \in legal : /\ m[3] = tr /\ m[4] = tc /\ m[5] = promo
                                 /\ lower(g[m[1]][m[2]]) = p
                                 /\ ~(m[1] = fr /\ m[2] = fc)}
        sf     == \E m \in ambig : m[2] = fc
        sr     == \E m \in ambig : m[1] = fr
        dis    == IF ambig = {} THEN <<>>
                  ELSE IF ~sf THEN <<ChrA(fc)>>
                  ELSE IF ~sr THEN <<StrOf(8 - fr)>>
                  ELSE <<ChrA(fc), StrOf(8 - fr)>>
    IN  IF p = "k" /\ fc = 4 /\ tc = 6 THEN <<"O", "-", "O">>
        ELSE IF p = "k" /\ fc = 4 /\ tc = 2 THEN <<"O", "-", "O", "-", "O">>
        ELSE IF p = "p" THEN
            (IF is_cap THEN <<ChrA(fc), "x">> \o to_sq ELSE to_sq) \o suffix
        ELSE <<upper(p)>> \o dis \o (IF is_cap THEN <<"x">> ELSE <<>>)
             \o to_sq \o suffix

----------------------------------------------------------------------------
(* Board: public move application *)

\* whether the parsing at the head of apply_uci raises ValueError:
\* len(uci) < 4, or int() of a rank character that is no digit
uci_parse_fails(uci) ==
    Len(uci) < 4 \/ uci[2] \notin Digits \/ uci[4] \notin Digits

\* (fr, fc, tr, tc, promo) as apply_uci reads them from the string
uci_tuple(uci) ==
    <<8 - IntOf(uci[2]), OrdMinusA(uci[1]),
      8 - IntOf(uci[4]), OrdMinusA(uci[3]),
      IF Len(uci) > 4 THEN lower(uci[5]) ELSE NoPromo>>

\* the move apply_uci plays for the string, after its queen-promotion
\* completion; <<>> when it raises "Illegal move"
uci_resolve(uci, legal) ==
    LET m == uci_tuple(uci)
    IN  IF m \in legal THEN m
        ELSE IF m[5] = NoPromo /\ <<m[1], m[2], m[3], m[4], "q">> \in legal
        THEN <<m[1], m[2], m[3], m[4], "q">>
        ELSE <<>>

\* the Board once _apply_raw's result has been stored in its fields
board_moved(b, new) ==
    [b EXCEPT !.board = new.board, !.castling = new.castling,
              !.ep = new.ep, !.halfmove = new.halfmove,
              !.fullmove = new.fullmove, !.turn = new.turn]

\* the tail of apply_uci: check suffix of the SAN, captured piece, history
\* entry and position count, on the Board b1 the move has produced
apply_recorded(b1, uci, san0, cap) ==
    LET in_chk == in_check(b1, b1.turn)
        no_mvs == legal_moves(b1) = {}
        san    == IF in_chk THEN san0 \o (IF no_mvs THEN <<"#">> ELSE <<"+">>)
                  ELSE san0
        takes  == cap # "None" /\ cap # "."
        fen_after == to_fen(b1)
        pos    == pos_key(b1)
    IN  [b1 EXCEPT
            !.cap_white = IF takes /\ b1.turn = "w" THEN Append(@, cap) ELSE @,
            !.cap_black = IF takes /\ b1.turn # "w" THEN Append(@, cap) ELSE @,
            !.move_history = Append(@, <<uci, san, fen_after>>),
            !.pos_history = dict_set(@, pos, dict_get(@, pos) + 1)]

\* the piece apply_uci notes as captured by move m, "None" when there is none
captured_piece(b, m) ==
    LET fr == m[1]  fc == m[2]  tr == m[3]  tc == m[4]
        target == b.board[tr][tc]
        p      == lower(b.board[fr][fc])
        ep_removed ==
            IF p = "p" /\ b.ep # <<"-">> /\ tr = EpRow(b.ep) /\ tc = EpCol(b.ep)
            THEN b.board[fr][EpCol(b.ep)] ELSE "None"
    IN  IF ep_removed # "None" THEN ep_removed
        ELSE IF target # "." THEN target ELSE "None"

\* the Board after the body of apply_uci has played move m, given as uci
apply_accepted(b, uci, m, legal) ==
    apply_recorded(board_moved(b, apply_raw(b, m)), uci,
                   build_san(b, m[1], m[2], m[3], m[4], m[5], legal),
                   captured_piece(b, m))

\* apply_uci recording the move in the history before it validates it
apply_uci_with_early_write(b, uci, legal) ==
    IF uci_parse_fails(uci) THEN [raised |-> TRUE, b |-> b]
    ELSE LET m == uci_resolve(uci, legal)
         IN  IF m = <<>>
             THEN [raised |-> TRUE,
                   b |-> [b EXCEPT !.move_history =
                                       Append(@, <<uci, <<>>, to_fen(b)>>)]]
             ELSE [raised |-> FALSE, b |-> apply_accepted(b, uci, m, legal)]

\* Board.apply_uci(uci), given legal = self.legal_moves(): the Board after
\* the call and whether it raised ValueError
apply_uci_with(b, uci, legal) ==
    IF uci_parse_fails(uci) THEN [raised |-> TRUE, b |-> b]
    ELSE LET m == uci_resolve(uci, legal)
         IN  IF m = <<>> THEN [raised |-> TRUE, b |-> b]
             ELSE [raised |-> FALSE, b |-> apply_accepted(b, uci, m, legal)]

\* Board.apply_uci(uci)
apply_uci(b, uci) == apply_uci_with(b, uci, legal_moves(b))

----------------------------------------------------------------------------
(* Board: game-result detection *)

\* an _insufficient that accepts any single man beside the kings
insufficient_any_lone(b) ==
    LET men == {s \in Squares : /\ b.board[s[1]][s[2]] # "."
                                /\ lower(b.board[s[1]][s[2]]) # "k"}
    IN  Cardinality(men) <= 1

\* Board._insufficient()
insufficient(b) ==
    LET cells(white) == {s \in Squares :
                            /\ b.board[s[1]][s[2]] # "."
                            /\ isupper(b.board[s[1]][s[2]]) = white
                            /\ lower(b.board[s[1]][s[2]]) # "k"}
        ws == cells(TRUE)
        bs == cells(FALSE)
        lone_minor(xs) == Cardinality(xs) = 1 /\
                          \A s \in xs : lower(b.board[s[1]][s[2]]) \in {"b", "n"}
    IN  \/ ws = {} /\ bs = {}
        \/ ws = {} /\ lone_minor(bs)
        \/ bs = {} /\ lone_minor(ws)

\* the threshold of the repetition test in game_result
RepetitionCount == 3
\* the threshold of the halfmove-clock test in game_result
FiftyMoveClock == 100

\* the repetition test of game_result
repetition_reached(b) == dict_get(b.pos_history, pos_key(b)) >= RepetitionCount

NotOver == [over |-> FALSE, result |-> "", reason |-> "", winner |-> "None"]
Draw(reason) ==
    [over |-> TRUE, result |-> "1/2-1/2", reason |-> reason, winner |-> "None"]

\* game_result testing the halfmove clock before it looks for legal moves
game_result_with_clock_first(b, legal) ==
    IF b.halfmove >= FiftyMoveClock THEN Draw("Draw by 50-move rule")
    ELSE IF legal = {} THEN
        IF in_check(b, b.turn) THEN
            [over |-> TRUE,
             result |-> IF b.turn = "w" THEN "0-1" ELSE "1-0",
             reason |-> "Checkmate",
             winner |-> IF b.turn = "w" THEN "black" ELSE "white"]
        ELSE Draw("Stalemate")
    ELSE IF repetition_reached(b) THEN Draw("Draw by threefold repetition")
    ELSE IF insufficient(b) THEN Draw("Draw by insufficient material")
    ELSE NotOver

\* a game_result that names the mated side as the winner
game_result_with_mover_named(b, legal) ==
    IF legal = {} THEN
        IF in_check(b, b.turn) THEN
            [over |-> TRUE,
             result |-> IF b.turn = "w" THEN "1-0" ELSE "0-1",
             reason |-> "Checkmate",
             winner |-> IF b.turn = "w" THEN "white" ELSE "black"]
        ELSE Draw("Stalemate")
    ELSE IF b.halfmove >= FiftyMoveClock THEN Draw("Draw by 50-move rule")
    ELSE IF repetition_reached(b) THEN Draw("Draw by threefold repetition")
    ELSE IF insufficient(b) THEN Draw("Draw by insufficient material")
    ELSE NotOver

\* Board.game_result(), given the legal moves of the side to move
game_result_with(b, legal) ==
    IF legal = {} THEN
        IF in_check(b, b.turn) THEN
            [over |-> TRUE,
             result |-> IF b.turn = "w" THEN "0-1" ELSE "1-0",
             reason |-> "Checkmate",
             winner |-> IF b.turn = "w" THEN "black" ELSE "white"]
        ELSE Draw("Stalemate")
    ELSE IF b.halfmove >= FiftyMoveClock THEN Draw("Draw by 50-move rule")
    ELSE IF repetition_reached(b) THEN Draw("Draw by threefold repetition")
    ELSE IF insufficient(b) THEN Draw("Draw by insufficient material")
    ELSE NotOver

\* Board.game_result()
game_result(b) == game_result_with(b, legal_moves(b))

----------------------------------------------------------------------------
(* Sequences *)

Range(sq) == {sq[i] : i \in 1..Len(sq)}

\* list.count(x)
Count(sq, x) == Cardinality({i \in 1..Len(sq) : sq[i] = x})

\* sq with its i-th element removed
RemoveAt(sq, i) == SubSeq(sq, 1, i - 1) \o SubSeq(sq, i + 1, Len(sq))

RECURSIVE SumSeq(_)
SumSeq(sq) == IF sq = <<>> THEN 0 ELSE Head(sq) + SumSeq(Tail(sq))

\* tuple comparison a < b
tuple_less(a, b) ==
    \E i \in 1..Len(a) : a[i] < b[i] /\ \A j \in 1..(i - 1) : a[j] = b[j]

\* sorted(S, key=...): the members of S in ascending order of key[x]
SortBy(S, key) ==
    [i \in 1..Cardinality(S) |->
        CHOOSE x \in S :
            Cardinality({y \in S : tuple_less(key[y], key[x])}) = i - 1]

RECURSIVE Perms(_)
\* every ordering of the members of a list (random.shuffle)
Perms(sq) ==
    IF sq = <<>> THEN {<<>>}
    ELSE UNION {{<<sq[i]>> \o rest : rest \in Perms(RemoveAt(sq, i))} :
                i \in 1..Len(sq)}

----------------------------------------------------------------------------
(* TournamentPlayer, TournamentGame *)

\* Players are numbered in the order of their names, 1 first.  Scores are
\* kept in half points (a win is 2, a draw 1), Sonneborn-Berger in quarter
\* points.  The opponent name 'BYE' is player 0, None is player 0 as well
\* where a player reference is optional.
BYE == 0
None == 0

\* TournamentPlayer.__init__
NewPlayer ==
    [score |-> 0, wins |-> 0, draws |-> 0, losses |-> 0,
     buchholz |-> 0, sonneborn |-> 0,
     color_history |-> <<>>, opponents |-> <<>>]

\* TournamentPlayer.record(result, opponent_name, color), result in half points
player_record(pl, result, opponent_name, color) ==
    [pl EXCEPT
        !.score = @ + result,
        !.wins = IF result = 2 THEN @ + 1 ELSE @,
        !.draws = IF result = 1 THEN @ + 1 ELSE @,
        !.losses = IF result \notin {1, 2} THEN @ + 1 ELSE @,
        !.color_history = Append(@, color),
        !.opponents = Append(@, opponent_name)]

\* A game's reason text: what it says (kind) and the player it names
NoReason == [kind |-> "", player |-> None]

\* TournamentGame.__init__
NewGame(round_num, white, black) ==
    [round_num |-> round_num, white |-> white, black |-> black,
     result |-> "None", reason |-> NoReason, move_count |-> 0,
     status |-> "pending", move_history |-> <<>>]

\* TournamentGame.white_score in half points; -1 for None
white_score(g) ==
    CASE g.result = "1-0" -> 2
      [] g.result = "1/2-1/2" -> 1
      [] g.result = "0-1" -> 0
      [] OTHER -> -1

\* TournamentGame.black_score in half points; -1 for None
black_score(g) ==
    LET ws == white_score(g)
    IN  IF ws = -1 THEN -1 ELSE IF ws # 1 THEN 2 - ws ELSE 1

----------------------------------------------------------------------------
(* SwissPairing *)

\* key=lambda p: (-p.score, -p.wins, p.name)
swiss_key(P) == [p \in DOMAIN P |-> <<-P[p].score, -P[p].wins, p>>]

NoPairing == <<-1>>

RECURSIVE backtrack_pair_strict(_, _)
\* a _backtrack_pair that gives up when only a repeat is left
backtrack_pair_strict(players, played_pairs) ==
    IF players = <<>> THEN <<>>
    ELSE IF Len(players) = 2 THEN
        IF {players[1], players[2]} \in played_pairs THEN NoPairing
        ELSE players
    ELSE
        LET p1   == players[1]
            rest == Tail(players)
            fits == {i \in 1..Len(rest) :
                        /\ {p1, rest[i]} \notin played_pairs
                        /\ backtrack_pair_strict(RemoveAt(rest, i),
                                                 played_pairs) # NoPairing}
        IN  IF fits # {} THEN
                LET i == CHOOSE i \in fits : \A j \in fits : i <= j
                IN  <<p1, rest[i]>>
                    \o backtrack_pair_strict(RemoveAt(rest, i), played_pairs)
            ELSE NoPairing

RECURSIVE backtrack_pair(_, _)
\* SwissPairing._backtrack_pair(players, played_pairs, depth)
backtrack_pair(players, played_pairs) ==
    IF players = <<>> THEN <<>>
    ELSE IF Len(players) = 2 THEN players
    ELSE
        LET p1   == players[1]
            rest == Tail(players)
            fits == {i \in 1..Len(rest) :
                        /\ {p1, rest[i]} \notin played_pairs
                        /\ backtrack_pair(RemoveAt(rest, i), played_pairs)
                               # NoPairing}
        IN  IF fits # {} THEN
                LET i == CHOOSE i \in fits : \A j \in fits : i <= j
                IN  <<p1, rest[i]>>
                    \o backtrack_pair(RemoveAt(rest, i), played_pairs)
            ELSE
                LET sub == backtrack_pair(Tail(rest), played_pairs)
                IN  <<p1, rest[1]>> \o (IF sub = NoPairing THEN <<>> ELSE sub)

\* SwissPairing._assign_colors(p1, p2): the (white, black) pairs it can return
assign_colors(P, p1, p2) ==
    LET b1 == Count(P[p1].color_history, "b") - Count(P[p1].color_history, "w")
        b2 == Count(P[p2].color_history, "b") - Count(P[p2].color_history, "w")
        last_b(p) == P[p].color_history # <<>> /\
                     P[p].color_history[Len(P[p].color_history)] = "b"
    IN  IF b1 > b2 THEN {<<p1, p2>>}
        ELSE IF b2 > b1 THEN {<<p2, p1>>}
        ELSE IF last_b(p1) THEN {<<p1, p2>>}
        ELSE IF last_b(p2) THEN {<<p2, p1>>}
        ELSE {<<p1, p2>>, <<p2, p1>>}

\* a bye that always goes to the last player of the sorted list
swiss_bye_last(P, available) ==
    IF Len(available) % 2 = 0 THEN None ELSE available[Len(available)]

\* the player SwissPairing.pair gives the bye, None for an even roster
swiss_bye(P, available) ==
    IF Len(available) % 2 = 0 THEN None
    ELSE LET fresh == {i \in 1..Len(available) :
                          BYE \notin Range(P[available[i]].opponents)}
         IN  IF fresh # {}
             THEN available[CHOOSE i \in fresh : \A j \in fresh : i >= j]
             ELSE available[Len(available)]

RECURSIVE colorings(_, _)
\* the lists of (white, black) that colouring a paired list two by two gives
colorings(P, paired) ==
    IF Len(paired) < 2 THEN {<<>>}
    ELSE {<<wb>> \o rest : wb \in assign_colors(P, paired[1], paired[2]),
                           rest \in colorings(P, SubSeq(paired, 3, Len(paired)))}

\* a list that loses its first player for the bye, whoever has the bye
swiss_available_drop_first(P, players) ==
    LET sorted == SortBy(Range(players), swiss_key(P))
    IN  SubSeq(sorted, 1 + (Len(sorted) % 2), Len(sorted))

\* the list SwissPairing.pair hands to _backtrack_pair
swiss_available(P, players) ==
    LET sorted == SortBy(Range(players), swiss_key(P))
        bye    == swiss_bye(P, sorted)
    IN  SelectSeq(sorted, LAMBDA x : x # bye)

\* SwissPairing.pair(players, round_num, played_pairs): every
\* (pairings, bye_player) it can return
swiss_pair(P, players, played_pairs) ==
    LET sorted == SortBy(Range(players), swiss_key(P))
        bye    == swiss_bye(P, sorted)
        paired == backtrack_pair(swiss_available(P, players), played_pairs)
    IN  {[pairs |-> c, bye |-> bye] : c \in colorings(P, paired)}

----------------------------------------------------------------------------
(* RoundRobinPairing, KnockoutBracket *)

\* one round of the circle method over circle (None is the bye slot)
rr_round(circle) ==
    LET n    == Len(circle)
        pair(i) == IF i % 2 = 0 THEN <<circle[i + 1], circle[n - i]>>
                   ELSE <<circle[n - i], circle[i + 1]>>
        keep == {i \in 0..(n \div 2 - 1) :
                    circle[i + 1] # None /\ circle[n - i] # None}
        idx  == SortBy(keep, [i \in keep |-> <<i>>])
    IN  [k \in 1..Len(idx) |-> pair(idx[k])]

\* a circle method that never rotates the circle
rr_rounds_unrotated(fixed, rotating, k) ==
    [r \in 1..k |-> rr_round(<<fixed>> \o rotating)]

RECURSIVE rr_rounds(_, _, _)
\* the rounds of the circle method still to come, k of them
rr_rounds(fixed, rotating, k) ==
    IF k = 0 THEN <<>>
    ELSE <<rr_round(<<fixed>> \o rotating)>> \o
         rr_rounds(fixed,
                   <<rotating[Len(rotating)]>>
                       \o SubSeq(rotating, 1, Len(rotating) - 1),
                   k - 1)

\* RoundRobinPairing.generate_all_rounds(players, double)
generate_all_rounds(players, double) ==
    LET lst == IF Len(players) % 2 = 1 THEN Append(players, None) ELSE players
        n   == Len(lst)
        rounds_single == rr_rounds(lst[1], Tail(lst), n - 1)
        rounds_double ==
            [r \in 1..Len(rounds_single) |->
                [k \in 1..Len(rounds_single[r]) |->
                    <<rounds_single[r][k][2], rounds_single[r][k][1]>>]]
    IN  IF double THEN rounds_single \o rounds_double ELSE rounds_single

RECURSIVE bracket_size(_, _)
\* size = 1; while size < n: size *= 2
bracket_size(size, n) == IF size < n THEN bracket_size(size * 2, n) ELSE size

\* a bracket that pairs neighbours and leaves an odd last player alone
seed_bracket_neighbours(players) ==
    [i \in 1..((Len(players) + 1) \div 2) |->
        IF 2 * i <= Len(players) THEN <<players[2 * i - 1], players[2 * i]>>
        ELSE <<players[2 * i - 1], None>>]

\* KnockoutBracket.seed_bracket(players)
seed_bracket(players) ==
    LET n      == Len(players)
        size   == bracket_size(1, n)
        seeded == players \o [i \in 1..(size - n) |-> None]
    IN  [i \in 1..(size \div 2) |-> <<seeded[i], seeded[size + 1 - i]>>]

\* the pairs of one shuffled list, each with either colouring
RECURSIVE ko_pairs(_)
ko_pairs(lst) ==
    IF Len(lst) < 2 THEN {<<>>}
    ELSE {<<wb>> \o rest : wb \in {<<lst[1], lst[2]>>, <<lst[2], lst[1]>>},
                           rest \in ko_pairs(SubSeq(lst, 3, Len(lst)))}

\* a next round that pairs only the first two winners
next_round_first_two(winners) == {<<<<winners[1], winners[2]>>>>}

\* KnockoutBracket.next_round(winners): every list of pairs it can return
next_round(winners) == UNION {ko_pairs(lst) : lst \in Perms(winners)}

----------------------------------------------------------------------------
(* Tournament controller *)

FORMAT_SWISS == "Swiss"
FORMAT_ROUNDROBIN == "Round Robin"
FORMAT_KNOCKOUT == "Knockout"

\* Tournament.__init__(name, fmt, players, rounds, double_rr) for a roster
\* of n players; all_games holds the games, round_games their indices
NewTournament(fmt, n, rounds, double_rr) ==
    LET player_list == [i \in 1..n |-> i]
        rr_schedule == IF fmt = FORMAT_ROUNDROBIN
                       THEN generate_all_rounds(player_list, double_rr)
                       ELSE <<>>
    IN  [format |-> fmt,
         players |-> [i \in 1..n |-> NewPlayer],
         player_list |-> player_list,
         rounds |-> IF fmt = FORMAT_ROUNDROBIN THEN Len(rr_schedule) ELSE rounds,
         double_rr |-> double_rr,
         current_round |-> 0,
         all_games |-> <<>>,
         round_games |-> <<>>,
         played_pairs |-> {},
         bye_history |-> {},
         started |-> FALSE,
         finished |-> FALSE,
         winner |-> None,
         ko_pending_winners |-> <<>>,
         ko_eliminated |-> <<>>,
         rr_schedule |-> rr_schedule]

\* for w, b in pairs: g = TournamentGame(...); round_games.append(g);
\* all_games.append(g)
add_games(t, pairs) ==
    LET base == Len(t.all_games)
    IN  [t EXCEPT
            !.all_games = @ \o [k \in 1..Len(pairs) |->
                                  NewGame(t.current_round, pairs[k][1], pairs[k][2])],
            !.round_games = @ \o [k \in 1..Len(pairs) |-> base + k]]

\* list.index(x) on the eliminated list, 0-based
ko_index(elim, x) == (CHOOSE i \in 1..Len(elim) :
                         elim[i] = x /\ \A j \in 1..(i - 1) : elim[j] # x) - 1

\* the sort keys of Tournament.get_standings
standings_key(t) ==
    LET P == t.players
        elim == t.ko_eliminated
    IN  [p \in DOMAIN P |->
            CASE t.format = FORMAT_SWISS ->
                   <<-P[p].score, -P[p].buchholz, -P[p].sonneborn, p>>
              [] t.format = FORMAT_ROUNDROBIN ->
                   <<-P[p].score, -P[p].wins, p>>
              [] OTHER ->
                   IF p \notin Range(elim) THEN <<0, -P[p].score, p>>
                   ELSE <<Len(elim) - ko_index(elim, p), -P[p].score, p>>]

\* Tournament.get_standings()
get_standings(t) == SortBy(Range(t.player_list), standings_key(t))

\* a _finish that flips the flag instead of setting it
finish_flips(t) ==
    LET standings == get_standings(t)
    IN  [t EXCEPT !.finished = ~@,
                  !.winner = IF standings # <<>> /\ t.winner = None
                             THEN standings[1] ELSE @]

\* Tournament._finish()
finish(t) ==
    LET standings == get_standings(t)
    IN  [t EXCEPT !.finished = TRUE,
                  !.winner = IF standings # <<>> /\ t.winner = None
                             THEN standings[1] ELSE @]

\* Tournament._generate_round(): every tournament it can leave behind
generate_round(t0) ==
    LET t == [t0 EXCEPT !.current_round = @ + 1, !.round_games = <<>>]
    IN  CASE t.format = FORMAT_SWISS ->
               {LET g == add_games(t, pb.pairs)
                IN  IF pb.bye # None
                    THEN [g EXCEPT
                            !.players[pb.bye] = player_record(@, 2, BYE, "w"),
                            !.bye_history = @ \cup {pb.bye}]
                    ELSE g
                : pb \in swiss_pair(t.players, t.player_list, t.played_pairs)}
          [] t.format = FORMAT_ROUNDROBIN ->
               IF t.current_round - 1 < Len(t.rr_schedule)
               THEN {add_games(t, t.rr_schedule[t.current_round])}
               ELSE {t}
          [] OTHER ->
               IF t.current_round = 1 THEN
                   LET bracket == seed_bracket(t.player_list)
                       byes  == SelectSeq(bracket,
                                    LAMBDA wb : wb[1] = None \/ wb[2] = None)
                       games == SelectSeq(bracket,
                                    LAMBDA wb : wb[1] # None /\ wb[2] # None)
                       survivors == SelectSeq(
                           [k \in 1..Len(byes) |->
                               IF byes[k][1] # None THEN byes[k][1] ELSE byes[k][2]],
                           LAMBDA x : x # None)
                   IN  {add_games([t EXCEPT !.ko_pending_winners = @ \o survivors],
                                  games)}
               ELSE
                   LET prev_winners == t.ko_pending_winners
                       t1 == [t EXCEPT !.ko_pending_winners = <<>>]
                   IN  IF Len(prev_winners) <= 1
                       THEN {finish([t1 EXCEPT !.winner =
                                IF prev_winners # <<>> THEN prev_winners[1] ELSE None])}
                       ELSE {add_games(t1, pairs) : pairs \in next_round(prev_winners)}

\* Tournament.start()
start(t) == generate_round([t EXCEPT !.started = TRUE])

\* Tournament.record_game_result(game, result, reason, move_history, ...)
\* for the game at index gi: every tournament it can leave behind
record_game_result(t, gi, result, reason, move_history) ==
    LET g0 == t.all_games[gi]
        g  == [g0 EXCEPT !.result = result, !.reason = reason,
                         !.move_count = Len(move_history),
                         !.move_history = move_history, !.status = "done"]
        ws == white_score(g)
        bs == black_score(g)
        t1 == [t EXCEPT !.all_games[gi] = g,
                        !.played_pairs = @ \cup {{g.white, g.black}}]
        t2 == IF ws # -1
              THEN [t1 EXCEPT
                      !.players = [[@ EXCEPT ![g.white] =
                                       player_record(@, ws, g.black, "w")]
                                   EXCEPT ![g.black] =
                                       player_record(@, bs, g.white, "b")]]
              ELSE t1
        ko(adv, elim) == [t2 EXCEPT !.ko_pending_winners = Append(@, adv),
                                    !.ko_eliminated = Append(@, elim)]
    IN  IF t.format = FORMAT_KNOCKOUT /\ ws # -1
        THEN IF ws > bs THEN {ko(g.white, g.black)}
             ELSE IF bs > ws THEN {ko(g.black, g.white)}
             ELSE {ko(g.white, g.black), ko(g.black, g.white)}
        ELSE {t2}

\* a round is complete only when every game of it has a winner or is drawn
round_complete_decided(t) ==
    \A k \in 1..Len(t.round_games) :
        t.all_games[t.round_games[k]].result \in {"1-0", "0-1", "1/2-1/2"}

\* Tournament.round_complete()
round_complete(t) ==
    \A k \in 1..Len(t.round_games) : t.all_games[t.round_games[k]].status = "done"

\* Tournament._update_buchholz()
update_buchholz(t) ==
    IF t.format # FORMAT_SWISS THEN t
    ELSE
        LET score_map == [p \in DOMAIN t.players |-> t.players[p].score]
            opp_sum(p) ==
                LET o == SelectSeq(t.players[p].opponents, LAMBDA x : x # BYE)
                IN  SumSeq([k \in 1..Len(o) |-> score_map[o[k]]])
            sb(p) ==
                SumSeq([k \in 1..Len(t.all_games) |->
                    LET g == t.all_games[k]
                    IN  IF g.status # "done" THEN 0
                        ELSE IF g.white = p /\ white_score(g) # -1
                             THEN white_score(g) * score_map[g.black]
                        ELSE IF g.black = p /\ black_score(g) # -1
                             THEN black_score(g) * score_map[g.white]
                        ELSE 0])
        IN  [t EXCEPT !.players =
                [p \in DOMAIN t.players |->
                    [t.players[p] EXCEPT !.buchholz = opp_sum(p),
                                         !.sonneborn = sb(p)]]]

\* Tournament.advance_round(): every (tournament, return value) it can give
advance_round(t0) ==
    LET t == update_buchholz(t0)
    IN  IF t.format \in {FORMAT_SWISS, FORMAT_ROUNDROBIN} THEN
            IF t.current_round >= t.rounds
            THEN {[t |-> finish(t), done |-> TRUE]}
            ELSE {[t |-> x, done |-> FALSE] : x \in generate_round(t)}
        ELSE
            LET active == t.ko_pending_winners
            IN  IF Len(active) <= 1
                THEN {[t |-> finish([t EXCEPT !.winner =
                          IF active # <<>> THEN active[1] ELSE None]),
                       done |-> TRUE]}
                ELSE {[t |-> x, done |-> FALSE] : x \in generate_round(t)}

\* Tournament.get_pending_games(), as indices into all_games
get_pending_games(t) ==
    SelectSeq(t.round_games, LAMBDA gi : t.all_games[gi].status = "pending")

\* Tournament.next_game(): index of the game, None when nothing is pending
next_game(t) ==
    LET pending == get_pending_games(t)
    IN  IF pending # <<>> THEN pending[1] ELSE None

----------------------------------------------------------------------------
(* TournamentRunner: its flags, and the state of one thread running _run *)

\* The moves the engines of a game choose from when they answer with a legal
\* move: the shortest game there is.
EngineScript ==
    << <<"f","2","f","3">>, <<"e","7","e","5">>,
       <<"g","2","g","4">>, <<"d","8","h","4">> >>

\* a move string no position of that game allows
IllegalUci == <<"e","2","e","5">>

\* get_best_move returned None
NoMove == <<>>

\* A thread in _run.  pc is the statement it is about to execute; game is
\* the index of the game _play_game was called with; board, result, reason
\* and uci are the locals of _play_game; e_white and e_black are the two
\* UCIEngine objects: "none", "alive", "dead" (the process has exited) or
\* "stopped" (stop() was called).  late records that stop() had already
\* been requested of the runner when the thread began its latest step.
IdleThread ==
    [pc |-> "idle", game |-> None, board |-> NewBoard,
     result |-> "", reason |-> NoReason, uci |-> NoMove,
     e_white |-> "none", e_black |-> "none", late |-> FALSE]

\* threading.Thread(target=self._run).start()
NewThread == [IdleThread EXCEPT !.pc = "run"]

\* the window before _start: self.runner = None and no thread
NoRunner ==
    [runner |-> FALSE, stop_flag |-> FALSE, pause_flag |-> FALSE,
     starts |-> 0, faults |-> 0, ended |-> 0,
     th |-> [cur |-> IdleThread, old |-> IdleThread]]

\* The threads: "cur" runs the window's runner, "old" the runner the window
\* dropped when _start replaced it (its flags stay as stop() left them).
ThreadIds == {"cur", "old"}

\* self._stop_flag as the thread reads it
stop_flag(r, id) == IF id = "cur" THEN r.stop_flag ELSE TRUE

\* a thread that never sees its runner paused
pause_flag_never(r, id) == FALSE

\* self._pause_flag as the thread reads it
pause_flag(r, id) == IF id = "cur" THEN r.pause_flag ELSE FALSE

\* a board together with its board.legal_moves()
script_entry(b) == [board |-> b, legal |-> legal_moves(b)]

\* the entry of the board after board.apply_uci(uci) on the board of entry e
entry_after(e, uci) == script_entry(apply_uci_with(e.board, uci, e.legal).b)

\* the entry of the board after the first k moves of EngineScript
RECURSIVE script_after(_)
script_after(k) ==
    IF k = 0 THEN script_entry(NewBoard)
    ELSE entry_after(script_after(k - 1), EngineScript[k])

\* the boards of the game EngineScript plays, each with its legal moves
ScriptTable == [k \in 1..(Len(EngineScript) + 1) |-> script_after(k - 1)]

\* the legal moves the table tab holds for board b, legal_moves(b) if none
script_lookup(tab, b, k) ==
    IF k <= Len(tab) /\ tab[k].board = b THEN tab[k].legal ELSE legal_moves(b)

\* board.legal_moves(), looked up for the boards of the script
legal_moves_cached(b) == script_lookup(ScriptTable, b, Len(b.move_history) + 1)

\* board.game_result() as _play_game calls it
board_game_result(b) ==
    CHOOSE gr \in {game_result_with(b, l) : l \in {legal_moves_cached(b)}} : TRUE

\* apply_uci on the boards of the script, for what the engines answer there
ApplyTable ==
    [k \in 1..Len(EngineScript) |->
        [uci \in {EngineScript[k], IllegalUci, NoMove} |->
            apply_uci_with(ScriptTable[k].board, uci, ScriptTable[k].legal)]]

\* board.apply_uci(uci) as _play_game calls it, looked up for the boards of
\* the script
board_apply_uci(b, uci) ==
    LET k == Len(b.move_history) + 1
    IN  IF k <= Len(ApplyTable) /\ ScriptTable[k].board = b
           /\ uci \in DOMAIN ApplyTable[k]
        THEN ApplyTable[k][uci]
        ELSE CHOOSE r \in {apply_uci_with(b, uci, l) :
                               l \in {legal_moves_cached(b)}} : TRUE

\* the move string of a legal move, as the runner formats it
UciOf(mv) ==
    SquareName(mv[1], mv[2]) \o SquareName(mv[3], mv[4])
    \o (IF mv[5] = NoPromo THEN <<>> ELSE <<mv[5]>>)

\* legal_ucis of _play_game
legal_ucis(b) == {UciOf(mv) : mv \in legal_moves_cached(b)}

\* '0-1' if is_white_turn else '1-0', read the other way round
forfeit_result_swapped(is_white_turn) ==
    IF is_white_turn THEN "1-0" ELSE "0-1"

\* result = '0-1' if is_white_turn else '1-0'
forfeit_result(is_white_turn) == IF is_white_turn THEN "0-1" ELSE "1-0"

\* the move get_best_move returns when the engine answers as it should
good_answers(b) ==
    IF Len(b.move_history) < Len(EngineScript)
    THEN {EngineScript[Len(b.move_history) + 1]} ELSE {}

\* what get_best_move returns when the engine is at fault: None on a
\* timeout, or a move the position does not allow
bad_answers == {NoMove, IllegalUci}

\* a completion that plays the legal move it matched, whatever its piece
checked_uci_first_match(uci, ucis) ==
    IF uci \notin ucis THEN
        IF Len(uci) = 4 /\ \E m \in ucis : Len(m) = 5 /\ SubSeq(m, 1, 4) = uci
        THEN CHOOSE m \in ucis : Len(m) = 5 /\ SubSeq(m, 1, 4) = uci
        ELSE NoMove
    ELSE uci

\* the move _play_game hands to apply_uci for the engine's answer uci;
\* NoMove when the answer forfeits the game
checked_uci(uci, ucis) ==
    IF uci \notin ucis THEN
        IF Len(uci) = 4 /\ \E m \in ucis : Len(m) = 5 /\ SubSeq(m, 1, 4) = uci
        THEN uci \o <<"q">>
        ELSE NoMove
    ELSE uci

\* TournamentRunner._abort_game(game, reason)
abort_game(t, gi, reason) ==
    [t EXCEPT !.all_games[gi].result = "*",
              !.all_games[gi].reason = reason,
              !.all_games[gi].status = "done"]

\* engine.stop() by _kill: the process is gone whatever it was
kill(e) == IF e = "none" THEN "none" ELSE "stopped"

----------------------------------------------------------------------------
(* SpecBoard: one Board driven through apply_uci *)

\* the longest game the Board is driven through
MaxPly == 8

\* The move strings callers hand to apply_uci: knight shuffles, the pawn and
\* queen moves of the fool's mate, and strings that are no move at all.
UciInputs ==
    { <<"b","1","c","3">>, <<"c","3","b","1">>,
      <<"b","8","c","6">>, <<"c","6","b","8">>,
      <<"f","2","f","3">>, <<"e","7","e","5">>,
      <<"g","2","g","4">>, <<"d","8","h","4">>,
      <<"e","2","e","5">>, <<"e","2">>, <<"e","2","x","4">> }

NoCall == [op |-> "__init__", raised |-> FALSE]

----------------------------------------------------------------------------
(* UCIEngine: the object, its process and its queue *)

\* how the latest call on the engine ended: the exception it raised ("" for
\* none) and what it returned or, for an exception, what its message says
NoReturn == [op |-> "__init__", raised |-> "", value |-> "None"]

\* UCIEngine.__init__.  process is "None", "running" or "exited" (poll()
\* is not None); q holds the lines the reader thread has queued; pc is
\* where the calling thread is: "idle" outside a call, else the loop it is
\* in; end is the deadline of that loop and now is time.time(), both
\* counted in time-outs of q.get; emitted counts the lines the process has
\* written.
NewEngine ==
    [process |-> "None", ready |-> FALSE, q |-> <<>>, pc |-> "idle",
     end |-> 0, now |-> 0, emitted |-> 0, ret |-> NoReturn]

\* UCIEngine.alive
alive(e) == e.process = "running"

\* the lines a process writes: the two acknowledgments, a search line, an
\* answer with a move, an answer without one, and an empty line
Lines ==
    { <<"uciok">>, <<"readyok">>, <<"info">>, <<"bestmove", "e2e4">>,
      <<"bestmove", "(none)">>, <<>> }

\* line.startswith(kw), for a line given as its words
starts_with(line, kw) == Len(line) > 0 /\ line[1] = kw

\* the errors a write to the pipe of a process that has exited can raise
WriteErrors == {"BrokenPipeError", "OSError"}

\* UCIEngine._send(cmd): the engine after the call and the exception that
\* leaves it.  Nothing is written unless the process is running; the write
\* fails only when the process exits under it, and of the errors of a
\* failed write only BrokenPipeError is caught.
send(e) ==
    IF e.process # "running" THEN {[e |-> e, raised |-> ""]}
    ELSE {[e |-> e, raised |-> ""]} \cup
         {[e |-> [e EXCEPT !.process = "exited"],
           raised |-> IF err = "BrokenPipeError" THEN "" ELSE err] :
          err \in WriteErrors}

\* the time-outs of start() for 'uciok' and 'readyok' and the margin of
\* get_best_move, each in time-outs of q.get
UciokTimeout == 3
ReadyokTimeout == 2
MoveTimeout == 2

\* a _wait loop that fails one q.get early
wait_expired_early(e) == e.now + 1 >= e.end

\* while time.time() < end, as false
wait_expired(e) == e.now >= e.end

\* the keyword start() is waiting for
wait_kw(e) == IF e.pc = "wait_uciok" THEN <<"uciok">> ELSE <<"readyok">>

\* start() after _wait(kw, timeout) has returned found
after_wait(e, found) ==
    IF e.pc = "wait_uciok" THEN
        IF ~found
        THEN {[e EXCEPT !.pc = "idle",
                        !.ret = [op |-> "start", raised |-> "RuntimeError",
                                 value |-> "No 'uciok'"]]}
        ELSE {IF s.raised # ""
              THEN [s.e EXCEPT !.pc = "idle", !.ready = TRUE,
                               !.ret = [op |-> "start", raised |-> s.raised,
                                        value |-> "None"]]
              ELSE [s.e EXCEPT !.pc = "wait_readyok", !.ready = TRUE,
                               !.end = e.now + ReadyokTimeout] :
              s \in send(e)}
    ELSE
        IF ~found
        THEN {[e EXCEPT !.pc = "idle",
                        !.ret = [op |-> "start", raised |-> "RuntimeError",
                                 value |-> "No 'readyok'"]]}
        ELSE {[e EXCEPT !.pc = "idle",
                        !.ret = [op |-> "start", raised |-> "",
                                 value |-> "None"]]}

\* get_best_move returning best
move_returned(e, best) ==
    [e EXCEPT !.pc = "idle",
              !.ret = [op |-> "get_best_move", raised |-> "", value |-> best]]

\* a tournament nobody uses
NoTournament == NewTournament(FORMAT_SWISS, 0, 0, FALSE)

InitBoard ==
    /\ B = NewBoard
    /\ call = NoCall
    /\ T = NoTournament
    /\ R = NoRunner
    /\ E = NewEngine

\* a caller invokes B.apply_uci(uci); legal is B.legal_moves()
ApplyUci(uci, legal) ==
    /\ Len(B.move_history) < MaxPly
    /\ LET r == apply_uci_with(B, uci, legal)
       IN  /\ B' = r.b
           /\ call' = [op |-> "apply_uci", raised |-> r.raised]
           /\ UNCHANGED <<T, R, E>>

NextBoard ==
    LET legal == legal_moves(B)
    IN  \E uci \in UciInputs : ApplyUci(uci, legal)

SpecBoard == InitBoard /\ [][NextBoard]_vars

----------------------------------------------------------------------------
(* SpecCtl: one Tournament driven through the calls the Runner makes *)

MaxPlayers == 5
MaxRounds == 2
MaxGames == 6

\* the results a game is handed over with; '*' is an undecided game
GameResults == {"1-0", "0-1", "1/2-1/2", "*"}

CtlTournaments ==
    {NewTournament(FORMAT_SWISS, n, r, FALSE) :
        n \in 2..MaxPlayers, r \in 1..MaxRounds}
    \cup {NewTournament(FORMAT_ROUNDROBIN, n, 0, d) :
        n \in 2..(MaxPlayers - 1), d \in BOOLEAN}
    \cup {NewTournament(FORMAT_KNOCKOUT, n, 1, FALSE) : n \in 2..MaxPlayers}

InitCtl ==
    /\ B = NewBoard
    /\ call = NoCall
    /\ T \in CtlTournaments
    /\ R = NoRunner
    /\ E = NewEngine

\* the number of games handed over so far
games_done(t) == Cardinality({i \in 1..Len(t.all_games) :
                                 t.all_games[i].status = "done"})

\* TournamentRunner._run: if not self.t.started: self.t.start()
CtlStart ==
    /\ ~T.started
    /\ T' \in start(T)
    /\ call' = [op |-> "start", raised |-> FALSE]
    /\ UNCHANGED <<B, R, E>>

\* the Runner hands over the result of the game next_game() gave it
CtlRecordGameResult ==
    /\ T.started /\ ~T.finished
    /\ next_game(T) # None
    /\ games_done(T) < MaxGames
    /\ \E result \in GameResults :
          T' \in record_game_result(T, next_game(T), result, NoReason, <<>>)
    /\ call' = [op |-> "record_game_result", raised |-> FALSE]
    /\ UNCHANGED <<B, R, E>>

\* the Runner found no pending game and the round complete
CtlAdvanceRound ==
    /\ T.started /\ ~T.finished
    /\ next_game(T) = None /\ round_complete(T)
    /\ \E r \in advance_round(T) : T' = r.t
    /\ call' = [op |-> "advance_round", raised |-> FALSE]
    /\ UNCHANGED <<B, R, E>>

NextCtl == CtlStart \/ CtlRecordGameResult \/ CtlAdvanceRound

SpecCtl == InitCtl /\ [][NextCtl]_vars

----------------------------------------------------------------------------
(* SpecRunner: the window's Start, Pause and Stop buttons, the runner      *)
(* threads and the engines of their games, on one Tournament.  Every       *)
(* action of a thread is one access to what the threads share, or one      *)
(* blocking call.  There is no analyzer and no opening book.               *)

\* the most threads alive at once: the window's runner and one it dropped
MaxThreads == 2
\* the most times Start is pressed with effect
MaxStarts == 2
\* the most engine faults in a run: a start that fails, a process that
\* exits, a move request that times out or is answered with no legal move
MaxFaults == 1

\* the tournaments run: two players meeting twice in two rounds, and two
\* players in a final
RunnerTournaments ==
    { NewTournament(FORMAT_ROUNDROBIN, 2, 0, TRUE),
      NewTournament(FORMAT_KNOCKOUT, 2, 1, FALSE) }

InitRunner ==
    /\ B = NewBoard
    /\ call = NoCall
    /\ T \in RunnerTournaments
    /\ R = NoRunner
    /\ E = NewEngine

live_threads(r) == {id \in ThreadIds : r.th[id].pc # "idle"}

\* TournamentWindow._start: refuses while the runner it holds is not
\* stopped, else makes a new TournamentRunner and starts its thread; the
\* thread of the runner it drops goes on for as long as it takes to exit
WStart ==
    /\ ~(R.runner /\ ~R.stop_flag)
    /\ R.starts < MaxStarts
    /\ Cardinality(live_threads(R)) < MaxThreads
    /\ R.th.cur.pc = "idle" \/ R.th.old.pc = "idle"
    /\ R' = [runner |-> TRUE, stop_flag |-> FALSE, pause_flag |-> FALSE,
             starts |-> R.starts + 1, faults |-> R.faults,
             ended |-> R.ended,
             th |-> [cur |-> NewThread,
                     old |-> IF R.th.cur.pc = "idle" THEN R.th.old
                             ELSE R.th.cur]]
    /\ UNCHANGED <<B, call, T, E>>

\* TournamentWindow._pause: runner.resume() or runner.pause()
WPause ==
    /\ R.runner
    /\ R' = [R EXCEPT !.pause_flag = ~R.pause_flag]
    /\ UNCHANGED <<B, call, T, E>>

\* TournamentWindow._stop: runner.stop()
WStop ==
    /\ R.runner
    /\ R' = [R EXCEPT !.stop_flag = TRUE, !.pause_flag = FALSE]
    /\ UNCHANGED <<B, call, T, E>>

\* a step of thread id: its new state and the tournament it leaves behind
ThreadStep(id, th, t) ==
    /\ \E new \in {th} :
          R' = [R EXCEPT !.th[id] =
                   [new EXCEPT !.late = stop_flag(R, id) /\ new.pc # "idle"]]
    /\ T' = t
    /\ UNCHANGED <<B, call, E>>

\* a step of thread id in which an engine of its game is at fault
FaultStep(id, th, t) ==
    /\ R.faults < MaxFaults
    /\ R' = [R EXCEPT !.th[id] = [th EXCEPT !.late = stop_flag(R, id)],
                       !.faults = @ + 1]
    /\ T' = t
    /\ UNCHANGED <<B, call, E>>

\* _run: if not self.t.started: self.t.start()
RunBegin(id) ==
    /\ R.th[id].pc = "run"
    /\ \E t \in (IF T.started THEN {T} ELSE start(T)) :
          ThreadStep(id, [R.th[id] EXCEPT !.pc = "loop"], t)

\* _run: while not self._stop_flag and not self.t.finished
LoopTest(id) ==
    /\ R.th[id].pc = "loop"
    /\ ThreadStep(id,
          [R.th[id] EXCEPT !.pc = IF stop_flag(R, id) \/ T.finished
                                  THEN "exit" ELSE "pause"], T)

\* _run: while self._pause_flag and not self._stop_flag: sleep; the
\* thread leaves the loop when it reads the test false
PauseWait(id) ==
    /\ R.th[id].pc = "pause"
    /\ ~(pause_flag(R, id) /\ ~stop_flag(R, id))
    /\ ThreadStep(id, [R.th[id] EXCEPT !.pc = "next"], T)

\* _run: game = self.t.next_game() and, for None, round_complete()
NextGame(id) ==
    /\ R.th[id].pc = "next"
    /\ LET game == next_game(T)
       IN  ThreadStep(id,
              IF game = None
              THEN [R.th[id] EXCEPT !.pc = IF round_complete(T)
                                           THEN "advance" ELSE "loop"]
              ELSE [R.th[id] EXCEPT !.pc = "play", !.game = game], T)

\* _run: done = self.t.advance_round(); if done: break
AdvanceRound(id) ==
    /\ R.th[id].pc = "advance"
    /\ \E r \in advance_round(T) :
          ThreadStep(id,
              [R.th[id] EXCEPT !.pc = IF r.done THEN "exit" ELSE "loop"], r.t)

\* _play_game: game.status = "running"
PlayBegin(id) ==
    /\ R.th[id].pc = "play"
    /\ ThreadStep(id, [R.th[id] EXCEPT !.pc = "engines"],
                  [T EXCEPT !.all_games[R.th[id].game].status = "running"])

\* _play_game: e_white.start(); e_black.start(); a start that raises
\* aborts the game, and _kill stops what was made
StartEngines(id) ==
    /\ R.th[id].pc = "engines"
    /\ LET th == R.th[id]
           g  == T.all_games[th.game]
           failed(who) ==
               FaultStep(id,
                   [th EXCEPT !.pc = "after", !.e_white = "stopped",
                              !.e_black = "stopped"],
                   abort_game(T, th.game,
                       [kind |-> "engine failed to start", player |-> who]))
       IN  \/ ThreadStep(id,
                  [th EXCEPT !.pc = "g_stop", !.e_white = "alive",
                             !.e_black = "alive", !.board = NewBoard,
                             !.result = "", !.reason = NoReason], T)
           \/ failed(g.white)
           \/ failed(g.black)

\* the process of a started engine exits
EngineDies(id) ==
    /\ R.th[id].pc \in {"g_stop", "g_pause", "g_turn", "g_ask", "g_check"}
    /\ \/ /\ R.th[id].e_white = "alive"
          /\ FaultStep(id, [R.th[id] EXCEPT !.e_white = "dead"], T)
       \/ /\ R.th[id].e_black = "alive"
          /\ FaultStep(id, [R.th[id] EXCEPT !.e_black = "dead"], T)

\* _play_game: if self._stop_flag: break
StopCheck(id) ==
    /\ R.th[id].pc = "g_stop"
    /\ ThreadStep(id,
          [R.th[id] EXCEPT !.pc = IF stop_flag(R, id) THEN "g_end"
                                  ELSE "g_pause"], T)

\* _play_game: while self._pause_flag and not self._stop_flag: sleep
GamePause(id) ==
    /\ R.th[id].pc = "g_pause"
    /\ ~(pause_flag(R, id) /\ ~stop_flag(R, id))
    /\ ThreadStep(id, [R.th[id] EXCEPT !.pc = "g_turn"], T)

\* _play_game: board.game_result(); if over: break; if not engine.alive:
\* forfeit; else the move request goes out
Turn(id) ==
    /\ R.th[id].pc = "g_turn"
    /\ \E gr \in {board_game_result(R.th[id].board)} :
       LET th == R.th[id]
           g  == T.all_games[th.game]
           is_white_turn == th.board.turn = "w"
           engine == IF is_white_turn THEN th.e_white ELSE th.e_black
           player == IF is_white_turn THEN g.white ELSE g.black
       IN  ThreadStep(id,
              IF gr.over
              THEN [th EXCEPT !.pc = "g_end", !.result = gr.result,
                       !.reason = [kind |-> gr.reason, player |-> None]]
              ELSE IF engine # "alive"
              THEN [th EXCEPT !.pc = "g_end",
                       !.result = forfeit_result(is_white_turn),
                       !.reason = [kind |-> "engine died", player |-> player]]
              ELSE [th EXCEPT !.pc = "g_ask", !.result = "",
                              !.reason = NoReason], T)

\* _play_game: uci = engine.get_best_move(...) returns; None at once when
\* the engine is not alive
Answer(id) ==
    /\ R.th[id].pc = "g_ask"
    /\ LET th == R.th[id]
           engine == IF th.board.turn = "w" THEN th.e_white ELSE th.e_black
       IN  IF engine # "alive"
           THEN ThreadStep(id, [th EXCEPT !.pc = "g_check", !.uci = NoMove], T)
           ELSE \/ \E uci \in good_answers(th.board) :
                      ThreadStep(id,
                          [th EXCEPT !.pc = "g_check", !.uci = uci], T)
                \/ \E uci \in bad_answers :
                      FaultStep(id,
                          [th EXCEPT !.pc = "g_check", !.uci = uci], T)

\* _play_game: engine.get_best_move(...) raises: the process of the engine
\* exits while _send writes to it and the write fails with an OSError that
\* is no BrokenPipeError; nothing up to Thread.run catches it, so the thread
\* ends where it is, the game stays "running" and the other engine goes on
AnswerRaises(id) ==
    /\ R.th[id].pc = "g_ask"
    /\ LET th == R.th[id]
           white == th.board.turn = "w"
       IN  /\ (IF white THEN th.e_white ELSE th.e_black) = "alive"
           /\ FaultStep(id,
                  [IdleThread EXCEPT
                      !.game = th.game,
                      !.e_white = IF white THEN "dead" ELSE th.e_white,
                      !.e_black = IF white THEN th.e_black ELSE "dead"], T)

\* _play_game: no move and illegal move forfeit; else board.apply_uci(uci)
CheckAndApply(id) ==
    /\ R.th[id].pc = "g_check"
    /\ \E uci \in {checked_uci(R.th[id].uci, legal_ucis(R.th[id].board))} :
       \E applied \in {board_apply_uci(R.th[id].board, uci)} :
       LET th == R.th[id]
           g  == T.all_games[th.game]
           is_white_turn == th.board.turn = "w"
           player == IF is_white_turn THEN g.white ELSE g.black
           forfeit(kind) ==
               [th EXCEPT !.pc = "g_end", !.uci = NoMove,
                          !.result = forfeit_result(is_white_turn),
                          !.reason = [kind |-> kind, player |-> player]]
       IN  ThreadStep(id,
              IF th.uci = NoMove THEN forfeit("returned no move")
              ELSE IF uci = NoMove \/ applied.raised
              THEN forfeit("Illegal move by")
              ELSE [th EXCEPT !.pc = "g_stop", !.uci = NoMove,
                              !.board = applied.b], T)

\* _play_game after the loop: a last game_result() when there is no
\* result, '*' when there is still none; record_game_result; _kill
GameEnd(id) ==
    /\ R.th[id].pc = "g_end"
    /\ \E gr \in {board_game_result(R.th[id].board)} :
       LET th == R.th[id]
           result == IF th.result # "" THEN th.result
                     ELSE IF gr.result # "" THEN gr.result ELSE "*"
           reason == IF th.result # "" THEN th.reason
                     ELSE IF gr.result # ""
                     THEN [kind |-> gr.reason, player |-> None]
                     ELSE [kind |-> "Unknown", player |-> None]
       IN  \E t \in record_game_result(T, th.game, result, reason,
                                       th.board.move_history) :
              ThreadStep(id,
                  [th EXCEPT !.pc = "after", !.result = result,
                             !.reason = reason,
                             !.e_white = kill(th.e_white),
                             !.e_black = kill(th.e_black)], t)

\* _run after _play_game: if self._stop_flag: break
AfterPlay(id) ==
    /\ R.th[id].pc = "after"
    /\ ThreadStep(id,
          [IdleThread EXCEPT !.pc = IF stop_flag(R, id) THEN "exit"
                                    ELSE "loop"], T)

\* _run after its loop: on_tournament_end(self.t) if the tournament is
\* finished, counted in ended; then _run returns and the thread ends
Exit(id) ==
    /\ R.th[id].pc = "exit"
    /\ R' = [R EXCEPT !.th[id] = IdleThread,
                      !.ended = IF T.finished THEN @ + 1 ELSE @]
    /\ UNCHANGED <<B, call, T, E>>

NextRunner ==
    \/ WStart
    \/ WPause
    \/ WStop
    \/ \E id \in ThreadIds :
          \/ RunBegin(id)
          \/ LoopTest(id)
          \/ PauseWait(id)
          \/ NextGame(id)
          \/ AdvanceRound(id)
          \/ PlayBegin(id)
          \/ StartEngines(id)
          \/ EngineDies(id)
          \/ StopCheck(id)
          \/ GamePause(id)
          \/ Turn(id)
          \/ Answer(id)
          \/ AnswerRaises(id)
          \/ CheckAndApply(id)
          \/ GameEnd(id)
          \/ AfterPlay(id)
          \/ Exit(id)

SpecRunner == InitRunner /\ [][NextRunner]_vars

----------------------------------------------------------------------------
(* Properties of the Board *)

\* uci names a member of legal, as it stands or completed with "q"
LegalOrCompletable(uci, legal) ==
    \E mv \in legal :
        \/ UciOf(mv) = uci
        \/ UciOf(mv) = uci \o <<"q">>
        \/ Len(uci) = 5 /\ UciOf(mv) = SubSeq(uci, 1, 4) \o <<lower(uci[5])>>

\* how many times the position now on the board has stood on it in this
\* game: the start position and the position after every move, by key
Occurrences(b) ==
    LET k == pos_key(b)
    IN  (IF pos_key(NewBoard) = k THEN 1 ELSE 0)
        + Cardinality({i \in 1..Len(b.move_history) :
                          fen_key(b.move_history[i][3]) = k})

\* C1: as soon as the position on the board has occurred three times in the
\* game (the start position included), game_result() reports a draw by
\* threefold repetition, unless the side to move has no legal move or the
\* 50-move rule applies first.
C1_ThreefoldReported ==
    (/\ Occurrences(B) >= 3
     /\ B.halfmove < FiftyMoveClock
     /\ legal_moves(B) # {})
    => game_result(B).reason = "Draw by threefold repetition"

\* the squares the pseudo-legal moves of side t land on
pseudo_targets(b, t) ==
    UNION {{<<mv[3], mv[4]>> : mv \in pseudo(b, s[1], s[2])} :
           s \in {s \in Squares :
                     /\ b.board[s[1]][s[2]] # "."
                     /\ (t = "w") = isupper(b.board[s[1]][s[2]])}}

\* C2: every member of legal_moves() leaves the mover's own king not
\* attacked, and after every move apply_uci has played the side that moved
\* is not in check: in_check is false for it and no pseudo-legal move of
\* the opponent lands on its king.
C2_LegalMovesKeepKingSafe ==
    /\ \A mv \in legal_moves(B) : ~in_check(apply_raw(B, mv), B.turn)
    /\ Len(B.move_history) > 0 =>
         /\ ~in_check(B, Opp(B.turn))
         /\ find_king(B.board, Opp(B.turn)) \notin pseudo_targets(B, B.turn)

\* a move has been played into a position where the side to move is in
\* check and has a legal reply, so some pseudo-legal moves are filtered out
C2_Witness ==
    /\ Len(B.move_history) > 0
    /\ in_check(B, B.turn)
    /\ legal_moves(B) # {}
    /\ \E s \in Squares :
          /\ B.board[s[1]][s[2]] # "."
          /\ isupper(B.board[s[1]][s[2]]) = (B.turn = "w")
          /\ \E mv \in pseudo(B, s[1], s[2]) : mv \notin legal_moves(B)

\* C3: a call of apply_uci that raises leaves the whole Board as it was, and
\* a call that does not raise has played a move that names a member of
\* legal_moves() (as given or completed as a queen promotion) and recorded
\* it: no string that is not legal gets past the rejection.
C3_RejectedLeavesUnchanged ==
    [][ call'.op = "apply_uci" =>
          IF call'.raised THEN B' = B
          ELSE /\ Len(B'.move_history) = Len(B.move_history) + 1
               /\ LegalOrCompletable(
                      B'.move_history[Len(B'.move_history)][1],
                      legal_moves(B)) ]_vars

\* a move string has been rejected on a position reached by earlier moves
C3_Witness ==
    /\ call.op = "apply_uci"
    /\ call.raised
    /\ Len(B.move_history) >= 2

\* the players of the games of the current round
round_players(t) ==
    UNION {{t.all_games[t.round_games[k]].white,
            t.all_games[t.round_games[k]].black} : k \in 1..Len(t.round_games)}

\* the games of the current round between two players who met before
round_repeats(t) ==
    {k \in 1..Len(t.round_games) :
        {t.all_games[t.round_games[k]].white,
         t.all_games[t.round_games[k]].black} \in t.played_pairs}

RECURSIVE HasFreshPairing(_, _)
\* the players of S can be put into pairs none of which is in played
HasFreshPairing(S, played) ==
    IF S = {} THEN TRUE
    ELSE LET a == CHOOSE x \in S : \A y \in S : x <= y
         IN  \E b \in S \ {a} :
                 /\ {a, b} \notin played
                 /\ HasFreshPairing(S \ {a, b}, played)

\* a Swiss round has just been generated and none of its games handed over
SwissRoundGenerated ==
    /\ T.format = FORMAT_SWISS
    /\ call.op \in {"start", "advance_round"}
    /\ ~T.finished

\* C4: a Swiss round generated by SwissPairing.pair contains a pair that
\* has already played only if the non-bye players cannot be put into pairs
\* that avoid every already-played pair.
C4_RepeatOnlyWhenForced ==
    SwissRoundGenerated /\ round_repeats(T) # {}
        => ~HasFreshPairing(round_players(T), T.played_pairs)

\* the games of round 1
round1_games(t) == {i \in 1..Len(t.all_games) : t.all_games[i].round_num = 1}

\* the roster players who are in no game of round 1
round1_byes(t) ==
    {p \in Range(t.player_list) :
        \A i \in round1_games(t) :
            t.all_games[i].white # p /\ t.all_games[i].black # p}

FivePlayerKnockout ==
    T.format = FORMAT_KNOCKOUT /\ Len(T.player_list) = 5 /\ T.started

\* C8 as stated: in a 5-player knockout, round 1 has exactly one bye and
\* the other four players play two games.
C8_OneByeTwoGames ==
    FivePlayerKnockout =>
        /\ Cardinality(round1_byes(T)) = 1
        /\ Cardinality(round1_games(T)) = 2

\* C8 as the code has it: in a 5-player knockout, round 1 has exactly three
\* byes, the three players are entered for round 2 without playing, and
\* the other two players play the one game of the round.
C8_ThreeByesOneGame ==
    FivePlayerKnockout =>
        /\ Cardinality(round1_byes(T)) = 3
        /\ Cardinality(round1_games(T)) = 1
        /\ T.current_round = 1 =>
              /\ round1_byes(T) \subseteq Range(T.ko_pending_winners)
              /\ \A p \in round1_byes(T) : T.players[p].opponents = <<>>

C8_Witness ==
    /\ FivePlayerKnockout
    /\ T.current_round = 1
    /\ call.op = "start"
    /\ Len(T.round_games) = 1

\* the least k with 2^k >= n
CeilLog2(n) == CHOOSE k \in 0..n : 2^k >= n /\ \A j \in 0..(k - 1) : 2^j < n

\* every game created so far has been handed over as a win, a loss or a draw
AllGamesDecided(t) ==
    \A i \in 1..Len(t.all_games) :
        t.all_games[i].result \in {"1-0", "0-1", "1/2-1/2"}

\* C9: a knockout of n >= 2 players whose games all end in a win, a loss or
\* a draw finishes after exactly ceil(log2 n) rounds, not earlier and not
\* later, with one winner: the only player not in the eliminated list.
C9_KnockoutRounds ==
    T.format = FORMAT_KNOCKOUT /\ T.started /\ AllGamesDecided(T) =>
        LET n == Len(T.player_list)
        IN  /\ T.current_round <= CeilLog2(n)
            /\ T.finished =>
                  /\ T.current_round = CeilLog2(n)
                  /\ T.winner \in Range(T.player_list)
                  /\ T.winner \notin Range(T.ko_eliminated)
                  /\ \A p \in Range(T.player_list) \ {T.winner} :
                        Count(T.ko_eliminated, p) = 1
                  /\ Len(T.ko_eliminated) = n - 1
            /\ T.current_round = CeilLog2(n) /\ round_complete(T)
                  /\ call.op = "advance_round" => T.finished

C9_Witness ==
    /\ T.format = FORMAT_KNOCKOUT /\ Len(T.player_list) = 5
    /\ T.finished /\ AllGamesDecided(T)
    /\ T.current_round = 3
    /\ \E i \in 1..Len(T.all_games) : T.all_games[i].result = "1/2-1/2"

\* C5: a game whose engine failed to start is a forfeit won by the other
\* player: 0-1 when White's engine failed and 1-0 when Black's did, and the
\* winner has the win in their score.
C5_StartFailureForfeits ==
    \A i \in 1..Len(T.all_games) :
        LET g == T.all_games[i]
        IN  g.reason.kind = "engine failed to start" =>
                /\ g.result = IF g.reason.player = g.white THEN "0-1" ELSE "1-0"
                /\ LET winner == IF g.reason.player = g.white
                                 THEN g.black ELSE g.white
                   IN  T.players[winner].wins >= 1

\* thread id takes a step
Steps(id) ==
    /\ R'.th[id].pc # R.th[id].pc
    /\ R'.runner = R.runner /\ R'.stop_flag = R.stop_flag
    /\ R'.pause_flag = R.pause_flag

\* C6: once stop() has been requested of a runner, its thread finishes at
\* most the step it is in: no later step of the thread turns a pending game
\* into a running one, starts an engine or generates a round.
C6_NothingStartedAfterStop ==
    [][\A id \in ThreadIds :
          Steps(id) /\ R.th[id].late =>
              /\ \A i \in 1..Len(T.all_games) :
                    T.all_games[i].status = "pending"
                        => T'.all_games[i].status # "running"
              /\ R'.th[id].e_white = "alive" => R.th[id].e_white = "alive"
              /\ R'.th[id].e_black = "alive" => R.th[id].e_black = "alive"
              /\ T'.current_round = T.current_round
              /\ Len(T'.all_games) = Len(T.all_games)]_vars

\* the player of game g whose turn it is on board b
player_to_move(g, b) == IF b.turn = "w" THEN g.white ELSE g.black

\* the engine of thread th whose turn it is
engine_to_move(th) == IF th.board.turn = "w" THEN th.e_white ELSE th.e_black

\* thread th holds an answer that is no move, or a move that is neither
\* legal nor a legal queen promotion once "q" is appended
BadAnswer(th) ==
    \/ th.uci = NoMove
    \/ /\ th.uci \notin legal_ucis(th.board)
       /\ ~(Len(th.uci) = 4 /\ th.uci \o <<"q">> \in legal_ucis(th.board))

\* thread th is about to find the side to move at fault
Offence(th) ==
    \/ /\ th.pc = "g_turn"
       /\ ~board_game_result(th.board).over
       /\ engine_to_move(th) # "alive"
    \/ th.pc = "g_check" /\ BadAnswer(th)

ForfeitKinds == {"engine died", "returned no move", "Illegal move by"}

\* C7: when the engine of the side to move is dead, returns no move or
\* returns a move that is neither legal nor promotion-completable, the game
\* ends there: the result is a win for the other side, the reason names the
\* player at fault, no move is applied, and that result and reason, with
\* the moves played until then, are what is recorded for the game.
C7_FaultForfeitsAtOnce ==
    [][\A id \in ThreadIds :
          Steps(id) =>
              LET th  == R.th[id]
                  th2 == R'.th[id]
                  g   == T.all_games[th.game]
              IN  /\ Offence(th) =>
                        /\ th2.pc = "g_end"
                        /\ th2.board = th.board
                        /\ th2.result = IF th.board.turn = "w"
                                        THEN "0-1" ELSE "1-0"
                        /\ th2.reason.kind \in ForfeitKinds
                        /\ th2.reason.player = player_to_move(g, th.board)
                  /\ th.pc = "g_end" /\ th.reason.kind \in ForfeitKinds =>
                        LET g2 == T'.all_games[th.game]
                        IN  /\ g2.status = "done"
                            /\ g2.result = th.result
                            /\ g2.reason = th.reason
                            /\ g2.move_history = th.board.move_history
                            /\ th2.pc = "after"]_vars

\* a game Black forfeited with an illegal answer to White's first move
C7_Witness ==
    \E i \in 1..Len(T.all_games) :
        LET g == T.all_games[i]
        IN  /\ g.status = "done"
            /\ g.reason = [kind |-> "Illegal move by", player |-> g.black]
            /\ g.result = "1-0"
            /\ g.move_count = 1
            /\ T.players[g.white].wins = 1

\* C10: a game's result, once it is no longer None, is never changed.
C10_ResultNeverChanges ==
    [][\A i \in 1..Len(T.all_games) :
          T.all_games[i].result # "None"
              => T'.all_games[i].result = T.all_games[i].result]_vars


----------------------------------------------------------------------------
(* Runner: the end of a game *)

\* the statements of _play_game from the start of the engines on
GamePcs ==
    {"engines", "g_stop", "g_pause", "g_turn", "g_ask", "g_check", "g_end"}

\* thread id leaves the game it has started
LeavesGame(id) ==
    /\ R.th[id].pc \in GamePcs
    /\ R'.th[id].pc \notin GamePcs
    /\ R'.runner = R.runner /\ R'.stop_flag = R.stop_flag
    /\ R'.pause_flag = R.pause_flag

\* C11: a thread leaves a game it has started only by the hand-over at the
\* end of _play_game: the game had not been handed over before, the
\* Controller then holds the result, the reason and every move of the
\* board for it, and neither engine of the game is left running.
C11_OneHandOverEnginesStopped ==
    [][\A id \in ThreadIds :
          LeavesGame(id) =>
              LET th == R.th[id]
                  g  == T.all_games[th.game]
                  g2 == T'.all_games[th.game]
              IN  /\ th.pc = "g_end"
                  /\ g.status # "done"
                  /\ g2.status = "done"
                  /\ g2.result = R'.th[id].result
                  /\ g2.move_history = th.board.move_history
                  /\ R'.th[id].e_white \in {"none", "stopped"}
                  /\ R'.th[id].e_black \in {"none", "stopped"}]_vars

----------------------------------------------------------------------------
(* Runner: pause *)

\* the statements at which _run and _play_game poll the pause flag
PausePcs == {"pause", "g_pause"}

\* C12: while the runner's thread is at a polling point with the pause flag
\* set and no stop requested, it does nothing: it stays at the polling
\* point, its game, board and engines are as they were, and the tournament
\* changes only if the thread of a dropped runner changes it.
C12_PausedDoesNothing ==
    [][R.pause_flag /\ ~R.stop_flag /\ R.th.cur.pc \in PausePcs =>
          /\ R'.th.cur.pc = R.th.cur.pc
          /\ R'.th.cur.game = R.th.cur.game
          /\ R'.th.cur.board = R.th.cur.board
          /\ R'.th.cur.result = R.th.cur.result
          /\ T' = T \/ R'.th.old.pc # R.th.old.pc]_vars

\* the runner is paused between two moves of a game
C12_Witness ==
    /\ R.pause_flag /\ ~R.stop_flag
    /\ R.th.cur.pc = "g_pause"
    /\ Len(R.th.cur.board.move_history) >= 1
    /\ T.all_games[R.th.cur.game].status = "running"

----------------------------------------------------------------------------
(* Runner: one control loop *)

\* the games of t with status "running"
running_games(t) ==
    {i \in 1..Len(t.all_games) : t.all_games[i].status = "running"}

\* C13: at most one thread is in _run at any time, and at most one game of
\* the tournament has status "running".
C13_SingleRunnerLoop ==
    /\ Cardinality(live_threads(R)) <= 1
    /\ Cardinality(running_games(T)) <= 1

----------------------------------------------------------------------------
(* Board.game_result late in a game *)

MaxResultPly == 2

\* Positions late in a game, White to move: a rook mate in one, a queen
\* move that mates or stalemates, king and knight against king, and a
\* bishop that can take the last black piece.
LatePositions ==
    { << <<"6","k","1">>, <<"8">>, <<"6","K","1">>, <<"8">>,
         <<"8">>, <<"8">>, <<"8">>, <<"R","7">> >>,
      << <<"7","k">>, <<"5","K","2">>, <<"8">>, <<"6","Q","1">>,
         <<"8">>, <<"8">>, <<"8">>, <<"8">> >>,
      << <<"8">>, <<"8">>, <<"4","k","3">>, <<"8">>,
         <<"8">>, <<"2","N","5">>, <<"8">>, <<"4","K","3">> >>,
      << <<"8">>, <<"8">>, <<"4","k","r","2">>, <<"8">>,
         <<"8">>, <<"2","B","5">>, <<"8">>, <<"4","K","3">> >>,
      << <<"8">>, <<"8">>, <<"4","k","3">>, <<"8">>,
         <<"8">>, <<"8">>, <<"4","P","3">>, <<"4","K","3">> >>,
      << <<"8">>, <<"4","k","3">>, <<"3","b","4">>, <<"8">>,
         <<"8">>, <<"8">>, <<"8">>, <<"4","K","3">> >> }

\* the halfmove clock of such a position, and how often it has occurred
LateClocks == {8, 98, 99, 100}
LateCounts == {1, 2, 3}

\* The Board in a late position: the fields _load_fen would read from its
\* FEN, and the count apply_uci has kept for it.  The moves that led there
\* and the pieces taken on the way are not kept: game_result and apply_uci
\* read neither.
late_board(rows, clock, count) ==
    LET f == load_fen([rows |-> rows, turn |-> "w", castling |-> {},
                       ep |-> <<"-">>, halfmove |-> clock, fullmove |-> 60])
        b == [board        |-> f.board,
              turn         |-> f.turn,
              castling     |-> f.castling,
              ep           |-> f.ep,
              halfmove     |-> f.halfmove,
              fullmove     |-> f.fullmove,
              move_history |-> <<>>,
              pos_history  |-> <<>>,
              cap_white    |-> <<>>,
              cap_black    |-> <<>>]
    IN  [b EXCEPT !.pos_history = dict_set(@, pos_key(b), count)]

InitResult ==
    /\ B \in {late_board(rows, clock, count) :
                 rows \in LatePositions, clock \in LateClocks,
                 count \in LateCounts}
    /\ call = NoCall
    /\ T = NoTournament
    /\ R = NoRunner
    /\ E = NewEngine

\* a caller plays a legal move with B.apply_uci
LateMove ==
    /\ Len(B.move_history) < MaxResultPly
    /\ \E legal \in {legal_moves(B)} :
          \E mv \in legal :
             \E r \in {apply_uci_with(B, UciOf(mv), legal)} :
                /\ B' = r.b
                /\ call' = [op |-> "apply_uci", raised |-> r.raised]
                /\ UNCHANGED <<T, R, E>>

SpecResult == InitResult /\ [][LateMove]_vars

\* C14: game_result() reports, in this order of precedence: no legal move
\* (checkmate with the side that moved last as winner when the side to move
\* is in check, else stalemate), then a halfmove clock of 100 or more, then
\* a position that has occurred three times, then insufficient material,
\* and else that the game is not over.
C14_ResultOrder ==
    LET r       == game_result(B)
        stuck   == legal_moves(B) = {}
        checked == in_check(B, B.turn)
        clock   == B.halfmove >= 100
        thrice  == dict_get(B.pos_history, pos_key(B)) >= 3
    IN  /\ stuck /\ checked =>
              /\ r.over /\ r.reason = "Checkmate"
              /\ r.result = (IF B.turn = "w" THEN "0-1" ELSE "1-0")
              /\ r.winner = (IF B.turn = "w" THEN "black" ELSE "white")
        /\ stuck /\ ~checked =>
              r.over /\ r.result = "1/2-1/2" /\ r.reason = "Stalemate"
        /\ ~stuck /\ clock =>
              r.over /\ r.result = "1/2-1/2"
              /\ r.reason = "Draw by 50-move rule"
        /\ ~stuck /\ ~clock /\ thrice =>
              r.over /\ r.result = "1/2-1/2"
              /\ r.reason = "Draw by threefold repetition"
        /\ ~stuck /\ ~clock /\ ~thrice /\ insufficient(B) =>
              r.over /\ r.result = "1/2-1/2"
              /\ r.reason = "Draw by insufficient material"
        /\ ~stuck /\ ~clock /\ ~thrice /\ ~insufficient(B) => ~r.over

\* Black has just been mated by the move that took the clock to 100
C14_Witness ==
    /\ Len(B.move_history) = 1
    /\ B.turn = "b" /\ B.halfmove = 100
    /\ legal_moves(B) = {} /\ in_check(B, "b")
    /\ game_result(B).reason = "Checkmate"
    /\ game_result(B).result = "1-0"

----------------------------------------------------------------------------
(* UCIEngine: calls on one engine object, its process and the clock *)

MaxTime == 8
MaxQueue == 2
MaxEmit == 3

InitEngine ==
    /\ B = NewBoard
    /\ call = NoCall
    /\ T = NoTournament
    /\ R = NoRunner
    /\ E = NewEngine

\* start() up to its first _wait: Popen raising FileNotFoundError or
\* PermissionError becomes RuntimeError; else the process runs, the reader
\* thread starts and "uci" is sent
EngStart ==
    /\ E.pc = "idle" /\ E.process = "None"
    /\ E.ret.op \notin {"start", "stop"}
    /\ E.now + UciokTimeout + ReadyokTimeout <= MaxTime
    /\ \/ E' = [E EXCEPT !.ret = [op |-> "start", raised |-> "RuntimeError",
                                   value |-> "Engine not found"]]
       \/ \E s \in send([E EXCEPT !.process = "running"]) :
             E' = IF s.raised # ""
                  THEN [s.e EXCEPT !.ret = [op |-> "start",
                                            raised |-> s.raised,
                                            value |-> "None"]]
                  ELSE [s.e EXCEPT !.pc = "wait_uciok",
                                   !.end = E.now + UciokTimeout]
    /\ UNCHANGED <<B, call, T, R>>

\* the loops of start()
WaitPcs == {"wait_uciok", "wait_readyok"}

\* _wait: the loop test fails, _wait returns False
EngWaitExpired ==
    /\ E.pc \in WaitPcs
    /\ wait_expired(E)
    /\ E' \in after_wait(E, FALSE)
    /\ UNCHANGED <<B, call, T, R>>

\* _wait: q.get returns a line
EngWaitLine ==
    /\ E.pc \in WaitPcs
    /\ ~wait_expired(E)
    /\ E.q # <<>>
    /\ LET line == Head(E.q)
           e1   == [E EXCEPT !.q = Tail(E.q)]
       IN  IF line # <<>> /\ (line = wait_kw(E) \/
                              starts_with(line, wait_kw(E)[1]))
           THEN E' \in after_wait(e1, TRUE)
           ELSE E' = e1
    /\ UNCHANGED <<B, call, T, R>>

\* _wait: q.get times out; _wait returns False if the process has exited
EngWaitEmpty ==
    /\ E.pc \in WaitPcs
    /\ ~wait_expired(E)
    /\ E.q = <<>>
    /\ LET e1 == [E EXCEPT !.now = @ + 1]
       IN  IF e1.process = "exited"
           THEN E' \in after_wait(e1, FALSE)
           ELSE E' = e1
    /\ UNCHANGED <<B, call, T, R>>

\* get_best_move up to its loop: None at once unless ready and alive;
\* else _drain, and the position and go commands are sent
EngGetBestMove ==
    /\ E.pc = "idle"
    /\ E.now + MoveTimeout <= MaxTime
    /\ IF ~E.ready \/ ~alive(E)
       THEN E' = move_returned(E, "None")
       ELSE \E s1 \in send([E EXCEPT !.q = <<>>]) :
              \E s2 \in (IF s1.raised # "" THEN {s1} ELSE send(s1.e)) :
                 E' = IF s2.raised # ""
                      THEN [s2.e EXCEPT !.ret = [op |-> "get_best_move",
                                                 raised |-> s2.raised,
                                                 value |-> "None"]]
                      ELSE [s2.e EXCEPT !.pc = "wait_bestmove",
                                        !.end = E.now + MoveTimeout]
    /\ UNCHANGED <<B, call, T, R>>

\* get_best_move: the loop test fails
EngMoveExpired ==
    /\ E.pc = "wait_bestmove"
    /\ wait_expired(E)
    /\ E' = move_returned(E, "None")
    /\ UNCHANGED <<B, call, T, R>>

\* get_best_move: q.get returns a line
EngMoveLine ==
    /\ E.pc = "wait_bestmove"
    /\ ~wait_expired(E)
    /\ E.q # <<>>
    /\ LET line == Head(E.q)
           e1   == [E EXCEPT !.q = Tail(E.q)]
       IN  IF starts_with(line, "bestmove")
           THEN E' = move_returned(e1,
                        IF Len(line) > 1 /\
                           line[2] \notin {"(none)", "null", "0000"}
                        THEN line[2] ELSE "None")
           ELSE E' = e1
    /\ UNCHANGED <<B, call, T, R>>

\* get_best_move: q.get times out; the loop ends if the process has exited
EngMoveEmpty ==
    /\ E.pc = "wait_bestmove"
    /\ ~wait_expired(E)
    /\ E.q = <<>>
    /\ LET e1 == [E EXCEPT !.now = @ + 1]
       IN  E' = IF e1.process = "exited"
                THEN move_returned(e1, "None") ELSE e1
    /\ UNCHANGED <<B, call, T, R>>

\* stop(): whatever the two _send calls raise is caught
EngStop ==
    /\ E.pc = "idle" /\ E.process # "None"
    /\ E' = [E EXCEPT !.process = "None", !.ready = FALSE,
                      !.ret = [op |-> "stop", raised |-> "",
                               value |-> "None"]]
    /\ UNCHANGED <<B, call, T, R>>

\* the process writes a line and _reader queues it
EngEmit ==
    /\ alive(E)
    /\ Len(E.q) < MaxQueue
    /\ E.emitted < MaxEmit
    /\ \E line \in Lines :
          E' = [E EXCEPT !.q = Append(@, line), !.emitted = @ + 1]
    /\ UNCHANGED <<B, call, T, R>>

\* the process exits
EngExit ==
    /\ alive(E)
    /\ E' = [E EXCEPT !.process = "exited"]
    /\ UNCHANGED <<B, call, T, R>>

\* a step of the thread that is inside _wait
EngWaitStep == EngWaitExpired \/ EngWaitLine \/ EngWaitEmpty

NextEngine ==
    \/ EngStart
    \/ EngWaitExpired
    \/ EngWaitLine
    \/ EngWaitEmpty
    \/ EngGetBestMove
    \/ EngMoveExpired
    \/ EngMoveLine
    \/ EngMoveEmpty
    \/ EngStop
    \/ EngEmit
    \/ EngExit

SpecEngine == InitEngine /\ [][NextEngine]_vars

\* the thread inside _wait keeps running
SpecEngineLive == SpecEngine /\ WF_vars(EngWaitStep)

\* start() has failed for want of the acknowledgment kw
StartFailed(e, kw) ==
    /\ e.pc = "idle"
    /\ e.ret = [op |-> "start", raised |-> "RuntimeError", value |-> kw]

\* C15: start() waiting for 'uciok' from a process that stays alive fails
\* with RuntimeError no earlier than its deadline, is never still waiting
\* after the deadline, and does not wait for ever.
C15_HandshakeTimeout ==
    /\ [](E.pc \in WaitPcs => E.now <= E.end)
    /\ [][E.pc = "wait_uciok" /\ E'.pc # "wait_uciok" /\ alive(E') =>
             \/ E'.ready /\ E'.ret.raised # "RuntimeError"
             \/ StartFailed(E', "No 'uciok'") /\ ~E'.ready
                 /\ E'.now >= E.end]_vars
    /\ (E.pc = "wait_uciok") ~> (E.pc # "wait_uciok")

\* start() has failed on a running process that never wrote a line, when
\* the time-out for 'uciok' had passed
C15_Witness ==
    /\ StartFailed(E, "No 'uciok'")
    /\ alive(E) /\ E.emitted = 0
    /\ E.now = UciokTimeout

\* C16: no call of get_best_move ends with an exception.
C16_MoveRequestNeverRaises ==
    E.ret.op = "get_best_move" => E.ret.raised = ""

----------------------------------------------------------------------------
(* SwissPairing.pair on any roster *)

MaxSwissRoster == 4

\* What a player can look like when pair is called: new, after a bye,
\* after a win with White, or after a loss with Black.
PlayerVariants == {"new", "bye", "won", "lost"}

\* player p of a roster of n as variant v
player_variant(p, n, v) ==
    LET other == (p % n) + 1
    IN  CASE v = "bye"  -> player_record(NewPlayer, 2, BYE, "w")
          [] v = "won"  -> player_record(NewPlayer, 2, other, "w")
          [] v = "lost" -> player_record(NewPlayer, 0, other, "b")
          [] OTHER      -> NewPlayer

\* the unordered pairs of a roster of n
roster_pairs(n) == {{a, b} : a, b \in 1..n} \ {{a} : a \in 1..n}

\* the Swiss tournament of n players, each the variant v gives, in which
\* the pairs pp have met
swiss_roster(n, v, pp) ==
    [NewTournament(FORMAT_SWISS, n, n, FALSE) EXCEPT
        !.players = [p \in 1..n |-> player_variant(p, n, v[p])],
        !.played_pairs = pp, !.started = TRUE]

\* a round of any roster is to be paired, whoever has met
InitSwiss ==
    /\ B = NewBoard
    /\ call = NoCall
    /\ \E n \in 1..MaxSwissRoster :
          \E v \in [1..n -> PlayerVariants] :
             \E pp \in SUBSET roster_pairs(n) :
                T = swiss_roster(n, v, pp)
    /\ R = NoRunner
    /\ E = NewEngine

\* SwissPairing.pair(self.player_list, round, self.played_pairs)
SwissPair ==
    /\ \E r \in swiss_pair(T.players, T.player_list, T.played_pairs) :
          call' = [op |-> "pair", raised |-> FALSE, value |-> r]
    /\ UNCHANGED <<B, T, R, E>>

SpecSwiss == InitSwiss /\ [][SwissPair]_vars

\* the players of a list of (white, black) pairs, one entry per seat
seats(pairs) ==
    [k \in 1..(2 * Len(pairs)) |-> pairs[(k + 1) \div 2][2 - (k % 2)]]

\* C17: whatever the roster and whoever has met, pair returns pairs and a
\* bye in which every player of the roster occurs exactly once, and the bye
\* is a single player or none.
C17_PairingComplete ==
    call.op = "pair" =>
        LET r    == call.value
            n    == Len(T.player_list)
            used == seats(r.pairs) \o
                    (IF r.bye = None THEN <<>> ELSE <<r.bye>>)
        IN  /\ Len(used) = n
            /\ \A p \in 1..n : Count(used, p) = 1

\* four players who have all met each other are paired again
C17_Witness ==
    /\ call.op = "pair"
    /\ Len(T.player_list) = 4
    /\ T.played_pairs = roster_pairs(4)
    /\ Len(call.value.pairs) = 2
    /\ call.value.bye = None

\* a ranks above b: higher score, then more wins, then the earlier name
ranks_above(P, a, b) ==
    \/ P[a].score > P[b].score
    \/ P[a].score = P[b].score /\ P[a].wins > P[b].wins
    \/ P[a].score = P[b].score /\ P[a].wins = P[b].wins /\ a < b

\* the lowest-ranked player of S
lowest_ranked(P, S) == CHOOSE p \in S : \A q \in S \ {p} : ranks_above(P, q, p)

\* the players that have had a bye
had_bye(P) == {p \in DOMAIN P : BYE \in Range(P[p].opponents)}

\* C18: with an odd roster the bye goes to the lowest-ranked player that has
\* had no bye, or to the lowest-ranked player when all have had one, and
\* that player is in no pair; with an even roster there is no bye.
C18_ByeToLowestWithoutBye ==
    call.op = "pair" =>
        LET r     == call.value
            P     == T.players
            all   == DOMAIN P
            fresh == all \ had_bye(P)
        IN  IF Cardinality(all) % 2 = 0 THEN r.bye = None
            ELSE /\ r.bye = lowest_ranked(P, IF fresh # {} THEN fresh ELSE all)
                 /\ Count(seats(r.pairs), r.bye) = 0

\* the lowest-ranked of three players has had a bye, so another one gets it
C18_Witness ==
    /\ call.op = "pair"
    /\ Len(T.player_list) = 3
    /\ lowest_ranked(T.players, 1..3) \in had_bye(T.players)
    /\ call.value.bye \notin had_bye(T.players)
    /\ call.value.bye # None
    /\ Len(call.value.pairs) = 1

----------------------------------------------------------------------------
(* RoundRobinPairing.generate_all_rounds on any roster *)

MaxRoundRobin == 5

InitRoundRobin ==
    /\ B = NewBoard
    /\ call = NoCall
    /\ T \in {NewTournament(FORMAT_ROUNDROBIN, n, 0, d) :
                 n \in 2..MaxRoundRobin, d \in BOOLEAN}
    /\ R = NoRunner
    /\ E = NewEngine

\* RoundRobinPairing.generate_all_rounds(players, double) for the players
\* of T in any order
GenerateAllRounds ==
    /\ \E players \in Perms(T.player_list) :
          call' = [op |-> "generate_all_rounds", raised |-> FALSE,
                   players |-> players, double |-> T.double_rr,
                   value |-> generate_all_rounds(players, T.double_rr)]
    /\ UNCHANGED <<B, T, R, E>>

SpecRoundRobin == InitRoundRobin /\ [][GenerateAllRounds]_vars

RECURSIVE Flatten(_)
\* the members of the lists of a list, in order
Flatten(lists) ==
    IF lists = <<>> THEN <<>> ELSE Head(lists) \o Flatten(Tail(lists))

\* the games among `games` in which a has White against b
meetings(games, a, b) ==
    Cardinality({k \in 1..Len(games) : games[k] = <<a, b>>})

\* C19: the first n - 1 or n rounds of the schedule hold every pair of
\* distinct players in exactly one game and nothing else; a double schedule
\* is those rounds followed by the same rounds with the colours swapped, so
\* that every pair meets once with each colour.
C19_RoundRobinSchedule ==
    call.op = "generate_all_rounds" =>
        LET sched  == call.value
            ps     == Range(call.players)
            n      == Len(call.players)
            half   == IF call.double THEN Len(sched) \div 2 ELSE Len(sched)
            single == Flatten(SubSeq(sched, 1, half))
            all    == Flatten(sched)
        IN  /\ Len(sched) = (IF call.double THEN 2 ELSE 1) * half
            /\ Len(single) = (n * (n - 1)) \div 2
            /\ \A a, b \in ps : a # b =>
                   meetings(single, a, b) + meetings(single, b, a) = 1
            /\ call.double =>
                   /\ \A r \in 1..half :
                         /\ Len(sched[half + r]) = Len(sched[r])
                         /\ \A k \in 1..Len(sched[r]) :
                               sched[half + r][k] =
                                   <<sched[r][k][2], sched[r][k][1]>>
                   /\ \A a, b \in ps : a # b => meetings(all, a, b) = 1

\* the double schedule of five players has been made
C19_Witness ==
    /\ call.op = "generate_all_rounds"
    /\ Len(call.players) = 5 /\ call.double
    /\ Len(call.value) = 10
    /\ Len(Flatten(call.value)) = 20

----------------------------------------------------------------------------
(* OpeningBook: a SAN rendered by the Board, matched against the legal set *)

MaxSanPly == 2

\* Positions in which several legal moves compete for one SAN: three knights
\* that reach d2, rooks on one rank and on one file, both castlings, a pawn
\* that promotes straight on or by capture on either side, two pawns that
\* take the same pawn en passant, and a b-pawn and a bishop that take on c3.
SanPositions ==
    { [rows |-> << <<"4","k","3">>, <<"8">>, <<"8">>, <<"8">>,
                   <<"8">>, <<"1","N","6">>, <<"8">>,
                   <<"1","N","2","K","N","2">> >>,
       castling |-> {}, ep |-> <<"-">>],
      [rows |-> << <<"4","k","3">>, <<"8">>, <<"8">>, <<"R","7">>,
                   <<"8">>, <<"8">>, <<"4","K","3">>, <<"R","6","R">> >>,
       castling |-> {}, ep |-> <<"-">>],
      [rows |-> << <<"r","3","k","2","r">>, <<"8">>, <<"8">>, <<"8">>,
                   <<"8">>, <<"8">>, <<"8">>, <<"R","3","K","2","R">> >>,
       castling |-> {"K", "Q", "k", "q"}, ep |-> <<"-">>],
      [rows |-> << <<"r","1","n","1","k","3">>, <<"1","P","6">>, <<"8">>,
                   <<"8">>, <<"8">>, <<"8">>, <<"8">>, <<"4","K","3">> >>,
       castling |-> {}, ep |-> <<"-">>],
      [rows |-> << <<"4","k","3">>, <<"8">>, <<"8">>,
                   <<"2","P","p","P","3">>, <<"8">>, <<"8">>, <<"8">>,
                   <<"4","K","3">> >>,
       castling |-> {}, ep |-> <<"d","6">>],
      [rows |-> << <<"4","k","3">>, <<"8">>, <<"8">>, <<"8">>, <<"8">>,
                   <<"2","n","5">>, <<"1","P","1","B","4">>,
                   <<"4","K","3">> >>,
       castling |-> {}, ep |-> <<"-">>] }

\* The Board in such a position, White to move: the fields _load_fen would
\* read from its FEN, and the position counted once.
san_board(pos) ==
    LET f == load_fen([rows |-> pos.rows, turn |-> "w",
                       castling |-> pos.castling, ep |-> pos.ep,
                       halfmove |-> 0, fullmove |-> 30])
        b == [board        |-> f.board,
              turn         |-> f.turn,
              castling     |-> f.castling,
              ep           |-> f.ep,
              halfmove     |-> f.halfmove,
              fullmove     |-> f.fullmove,
              move_history |-> <<>>,
              pos_history  |-> <<>>,
              cap_white    |-> <<>>,
              cap_black    |-> <<>>]
    IN  [b EXCEPT !.pos_history = dict_set(@, pos_key(b), 1)]

\* the characters san.replace('+', '').replace('#', '').replace('x', '') keeps
san_kept(ch) == ch \notin {"+", "#", "x"}

\* san_clean / test_clean of _san_to_uci
san_clean(san) == SelectSeq(san, san_kept)

\* test_san of _san_to_uci for every move of the legal set
san_table(b, legal) ==
    [m \in legal |-> build_san(b, m[1], m[2], m[3], m[4], m[5], legal)]

\* the legal moves the loop of _san_to_uci accepts for san; it returns the
\* move string of the first of them, and None when there is none
san_candidates(san, tab) ==
    {m \in DOMAIN tab : san_clean(tab[m]) = san_clean(san) \/ tab[m] = san}

InitSan ==
    /\ B \in {san_board(pos) : pos \in SanPositions}
    /\ call = NoCall
    /\ T = NoTournament
    /\ R = NoRunner
    /\ E = NewEngine

\* a caller plays a legal move with B.apply_uci
SanMove ==
    /\ Len(B.move_history) < MaxSanPly
    /\ \E legal \in {legal_moves(B)} :
          \E mv \in legal :
             \E r \in {apply_uci_with(B, UciOf(mv), legal)} :
                /\ B' = r.b
                /\ call' = [op |-> "apply_uci", raised |-> r.raised]
                /\ UNCHANGED <<T, R, E>>

SpecSan == InitSan /\ [][SanMove]_vars

\* C20: in every position, the SAN that _build_san renders for a legal move
\* is matched, among the SANs of all moves of the same legal set, by that
\* move and by no other.
C20_SanRoundTrip ==
    \A legal \in {legal_moves(B)} :
       \A tab \in {san_table(B, legal)} :
          \A m \in legal : san_candidates(tab[m], tab) = {m}

\* After a move of each side White has three knights that reach d2: one told
\* apart by its file, one by its rank, one by both, and each SAN finds its
\* own move
C20_Witness ==
    /\ Len(B.move_history) = 2
    /\ B.turn = "w"
    /\ \E legal \in {legal_moves(B)} :
          \E tab \in {san_table(B, legal)} :
             /\ \E m \in legal : /\ tab[m] = <<"N", "b", "1", "d", "2">>
                                 /\ san_candidates(tab[m], tab) = {m}
             /\ \E m \in legal : /\ tab[m] = <<"N", "3", "d", "2">>
                                 /\ san_candidates(tab[m], tab) = {m}
             /\ \E m \in legal : /\ tab[m] = <<"N", "f", "d", "2">>
                                 /\ san_candidates(tab[m], tab) = {m}

----------------------------------------------------------------------------
(* Board: insufficient material *)

\* the squares that hold one of the given pieces
squares_with(b, pieces) == {s \in Squares : b.board[s[1]][s[2]] \in pieces}

\* nothing but the two kings on the grid
bare_kings(b) ==
    /\ squares_with(b, WhitePieces \ {"K"}) = {}
    /\ squares_with(b, BlackPieces \ {"k"}) = {}

\* one side has its king alone, the other its king and exactly one man,
\* which is one of the given pieces
king_and_one(b, white_kinds, black_kinds) ==
    LET w == squares_with(b, WhitePieces \ {"K"})
        k == squares_with(b, BlackPieces \ {"k"})
    IN  \/ k = {} /\ Cardinality(w) = 1 /\ squares_with(b, white_kinds) = w
        \/ w = {} /\ Cardinality(k) = 1 /\ squares_with(b, black_kinds) = k

\* the position is one of the three the claim lists
drawn_material(b) ==
    bare_kings(b) \/ king_and_one(b, {"B", "N"}, {"b", "n"})

\* C21, as stated: whenever the side to move has a legal move, two bare
\* kings, or king and one bishop or one knight against a bare king, are
\* reported as a draw by insufficient material, and king and pawn against a
\* bare king is not.
C21_InsufficientWheneverMovable ==
    LET r == game_result(B)
    IN  /\ legal_moves(B) # {} /\ drawn_material(B) =>
              r.over /\ r.result = "1/2-1/2"
              /\ r.reason = "Draw by insufficient material"
        /\ king_and_one(B, {"P"}, {"p"}) =>
              r.reason # "Draw by insufficient material"

\* C21, amended: the same, for a position whose halfmove clock is below 100
\* and which has occurred fewer than three times; the 50-move rule and the
\* repetition are reported before the material is looked at.
C21_InsufficientMaterial ==
    LET r == game_result(B)
    IN  /\ (/\ legal_moves(B) # {}
            /\ B.halfmove < 100
            /\ dict_get(B.pos_history, pos_key(B)) < 3
            /\ drawn_material(B)) =>
              r.over /\ r.result = "1/2-1/2"
              /\ r.reason = "Draw by insufficient material"
        /\ king_and_one(B, {"P"}, {"p"}) =>
              r.reason # "Draw by insufficient material"

\* a bishop took the rook and the king took the bishop: two bare kings, and
\* game_result reports the draw by insufficient material
C21_Witness ==
    /\ Len(B.move_history) = 2
    /\ bare_kings(B)
    /\ B.cap_white # <<>> /\ B.cap_black # <<>>
    /\ game_result(B).reason = "Draw by insufficient material"

----------------------------------------------------------------------------
(* Board: the moves of the start position *)

\* the legal moves of b made by the given piece
moves_of(b, legal, piece) == {m \in legal : b.board[m[1]][m[2]] = piece}

\* C22: in the standard starting position with White to move, legal_moves
\* has exactly 20 members, 16 pawn moves and 4 knight moves.
C22_TwentyOpeningMoves ==
    pos_key(B) = fen_key(START_FEN) =>
        \A legal \in {legal_moves(B)} :
           /\ Cardinality(legal) = 20
           /\ Cardinality(moves_of(B, legal, "P")) = 16
           /\ Cardinality(moves_of(B, legal, "N")) = 4

\* the knights went out and came back: the start position again, with its
\* twenty moves
C22_Witness ==
    /\ Len(B.move_history) = 4
    /\ pos_key(B) = fen_key(START_FEN)
    /\ Cardinality(legal_moves(B)) = 20

----------------------------------------------------------------------------
(* Board: the fool's mate *)

\* the move strings of the history, in order
history_ucis(b) == [i \in 1..Len(b.move_history) |-> b.move_history[i][1]]

FoolsMate ==
    << <<"f","2","f","3">>, <<"e","7","e","5">>,
       <<"g","2","g","4">>, <<"d","8","h","4">> >>

\* C23: after f2f3, e7e5, g2g4, d8h4 from the start position, game_result()
\* reports the game over by checkmate, with White to move, Black the winner
\* and the result 0-1.
C23_FoolsMate ==
    history_ucis(B) = FoolsMate =>
        /\ B.turn = "w"
        /\ game_result(B) = [over |-> TRUE, result |-> "0-1",
                             reason |-> "Checkmate", winner |-> "black"]

\* the four moves have been applied, the last of them recorded as a mate
C23_Witness ==
    /\ history_ucis(B) = FoolsMate
    /\ B.move_history[4][2] = <<"Q", "h", "4", "#">>
    /\ game_result(B).over

----------------------------------------------------------------------------
(* Board: the two kings *)

\* C24: in every position reached through apply_uci the grid holds exactly
\* one white king and exactly one black king.
C24_OneKingEach ==
    /\ Cardinality(squares_with(B, {"K"})) = 1
    /\ Cardinality(squares_with(B, {"k"})) = 1

\* after a capture next to a king, a castling or a promotion, both kings are
\* still there
C24_Witness ==
    /\ Len(B.move_history) = 2
    /\ \/ B.cap_white # <<>> /\ B.cap_black # <<>>
       \/ \E i \in 1..2 : B.move_history[i][2] = <<"O", "-", "O">>
    /\ Cardinality(squares_with(B, {"K"})) = 1
    /\ Cardinality(squares_with(B, {"k"})) = 1

----------------------------------------------------------------------------
(* SpecCtlFree: one Tournament on which record_game_result and             *)
(* advance_round are called as two racing runner threads can call them:    *)
(* for a game that is already done, for a round that is not complete, and  *)
(* after the tournament has finished.                                      *)

\* the most results recorded against players, and the most rounds begun
MaxRecords == 3
MaxFreeRounds == 3

FreeTournaments ==
    { NewTournament(FORMAT_SWISS, 3, 2, FALSE),
      NewTournament(FORMAT_ROUNDROBIN, 2, 0, TRUE),
      NewTournament(FORMAT_KNOCKOUT, 2, 1, FALSE),
      NewTournament(FORMAT_KNOCKOUT, 3, 1, FALSE) }

InitCtlFree ==
    /\ B = NewBoard
    /\ call = NoCall
    /\ T \in FreeTournaments
    /\ R = NoRunner
    /\ E = NewEngine

\* the number of results recorded against games so far
records_made(t) ==
    Cardinality({<<p, k>> \in (DOMAIN t.players) \X (1..(2 * MaxRecords)) :
                    /\ k <= Len(t.players[p].opponents)
                    /\ t.players[p].opponents[k] # BYE})

\* TournamentRunner._run: if not self.t.started: self.t.start()
FreeStart ==
    /\ ~T.started
    /\ T' \in start(T)
    /\ call' = [op |-> "start", raised |-> FALSE, done |-> FALSE]
    /\ UNCHANGED <<B, R, E>>

\* a thread hands over the result of a game it was given, whatever has
\* happened to the game and the tournament since
FreeRecordGameResult ==
    /\ T.started
    /\ records_made(T) < 2 * MaxRecords
    /\ \E gi \in 1..Len(T.all_games) : \E result \in GameResults :
          T' \in record_game_result(T, gi, result, NoReason, <<>>)
    /\ call' = [op |-> "record_game_result", raised |-> FALSE, done |-> FALSE]
    /\ UNCHANGED <<B, R, E>>

\* a thread that saw the round complete calls advance_round, whatever the
\* other thread has done since
FreeAdvanceRound ==
    /\ T.started
    /\ T.current_round < MaxFreeRounds
    /\ \E r \in advance_round(T) :
          /\ T' = r.t
          /\ call' = [op |-> "advance_round", raised |-> FALSE, done |-> r.done]
    /\ UNCHANGED <<B, R, E>>

NextCtlFree == FreeStart \/ FreeRecordGameResult \/ FreeAdvanceRound

SpecCtlFree == InitCtlFree /\ [][NextCtlFree]_vars

\* C25: once the finished flag of a Tournament is true, no call of
\* record_game_result or advance_round, and no round they generate, makes it
\* false again.
C25_FinishedForGood == [][T.finished => T'.finished]_vars

\* on a finished tournament advance_round has just generated another round
C25_Witness ==
    /\ T.finished
    /\ call.op = "advance_round" /\ ~call.done
    /\ T.current_round > 1

----------------------------------------------------------------------------
(* UCIEngine.get_eval and AnalyzerEngine.eval_position on the same output *)

MaxEvalLines == 2
MaxEvalMoves == 2

\* a token of an engine line: a word, or a word that int() accepts
Word(text) == [is_int |-> FALSE, text |-> text, num |-> 0]
Num(n) == [is_int |-> TRUE, text |-> "", num |-> n]

\* the lines an engine answers a "go" with, as line.split() sees them
EvalLines ==
    { <<Word("info"), Word("depth"), Num(5), Word("score"), Word("cp"), Num(50)>>,
      <<Word("info"), Word("score"), Word("cp"), Num(-30)>>,
      <<Word("info"), Word("score"), Word("mate"), Num(2)>>,
      <<Word("info"), Word("score"), Word("mate"), Num(-1)>>,
      <<Word("info"), Word("depth"), Num(3)>>,
      <<Word("info"), Word("score"), Word("cp")>>,
      <<Word("bestmove"), Word("e2e4")>>,
      <<>> }

NoInfo == [has_score |-> FALSE, score |-> 0, score_type |-> "cp"]

RECURSIVE parse_info_from(_, _, _)
\* UCIEngine._parse_info from token i on (the tokens after "info", counted
\* from 1): the score it has noted
parse_info_from(tokens, i, info) ==
    IF i > Len(tokens) THEN info
    ELSE
    LET t == tokens[i]
    IN  IF ~t.is_int /\ t.text \in {"depth", "nodes", "nps"}
           /\ i + 1 <= Len(tokens) /\ tokens[i + 1].is_int
        THEN parse_info_from(tokens, i + 2, info)
        ELSE IF ~t.is_int /\ t.text = "score" /\ i + 1 <= Len(tokens)
                /\ ~tokens[i + 1].is_int
                /\ tokens[i + 1].text \in {"cp", "mate"}
                /\ i + 2 <= Len(tokens) /\ tokens[i + 2].is_int
        THEN parse_info_from(tokens, i + 3,
                 [has_score |-> TRUE, score |-> tokens[i + 2].num,
                  score_type |-> tokens[i + 1].text])
        ELSE IF ~t.is_int /\ t.text = "pv" THEN info
        ELSE parse_info_from(tokens, i + 1, info)

\* UCIEngine._parse_info(line)
parse_info(line) == parse_info_from(Tail(line), 1, NoInfo)

RECURSIVE last_score_of(_, _)
\* the reading loop of get_eval and of eval_position: the last score seen
\* before the first bestmove line, or before the time runs out
last_score_of(lines, last) ==
    IF lines = <<>> THEN last
    ELSE
    LET line == Head(lines)
    IN  IF line = <<>> THEN last_score_of(Tail(lines), last)
        ELSE IF line[1] = Word("info") /\ Len(line) > 1 THEN
            LET info == parse_info(line)
            IN  last_score_of(Tail(lines), IF info.has_score THEN info ELSE last)
        ELSE IF line[1] = Word("bestmove") THEN last
        ELSE last_score_of(Tail(lines), last)

\* 30000 if last_score > 0 else -30000 for a mate score, else the score
centipawns(last) ==
    IF last.score_type = "mate"
    THEN (IF last.score > 0 THEN 30000 ELSE -30000)
    ELSE last.score

NoScore == [cp |-> "None", score_type |-> "None"]

\* UCIEngine.get_eval(moves_str): the value returned
get_eval(e, moves, lines) ==
    IF ~e.ready \/ ~alive(e) THEN "None"
    ELSE LET last == last_score_of(lines, NoInfo)
         IN  IF ~last.has_score THEN "None" ELSE centipawns(last)

\* AnalyzerEngine.eval_position(moves_str): the pair returned
eval_position(e, moves, lines) ==
    IF ~e.ready \/ ~alive(e) THEN NoScore
    ELSE LET last         == last_score_of(lines, NoInfo)
             n_moves      == Len(moves)
             side_to_move == IF n_moves % 2 = 0 THEN "w" ELSE "b"
             cp           == centipawns(last)
         IN  IF ~last.has_score THEN NoScore
             ELSE [cp |-> IF side_to_move = "b" THEN -cp ELSE cp,
                   score_type |-> last.score_type]

\* sequences of at most n of the lines
RECURSIVE LineSeqs(_)
LineSeqs(n) ==
    IF n = 0 THEN {<<>>}
    ELSE LET shorter == LineSeqs(n - 1)
         IN  shorter \cup {Append(ls, l) : ls \in shorter, l \in EvalLines}

\* an engine that has been started and one that has not, a move history and
\* the lines the engine will answer with
InitEval ==
    /\ B = NewBoard
    /\ T = NoTournament
    /\ R = NoRunner
    /\ E \in {NewEngine,
              [NewEngine EXCEPT !.process = "running", !.ready = TRUE]}
    /\ \E n \in 0..MaxEvalMoves : \E lines \in LineSeqs(MaxEvalLines) :
          call = [op |-> "__init__", raised |-> FALSE,
                  moves |-> SubSeq(EngineScript, 1, n), lines |-> lines,
                  value |-> "None", score_type |-> "None"]

\* the runner asks a playing engine for its evaluation
GetEval ==
    /\ call.op = "__init__"
    /\ call' = [call EXCEPT !.op = "get_eval",
                            !.value = get_eval(E, call.moves, call.lines)]
    /\ UNCHANGED <<B, T, R, E>>

\* the runner asks the analyzer for its evaluation
EvalPosition ==
    /\ call.op = "__init__"
    /\ \E r \in {eval_position(E, call.moves, call.lines)} :
          call' = [call EXCEPT !.op = "eval_position",
                               !.value = r.cp, !.score_type = r.score_type]
    /\ UNCHANGED <<B, T, R, E>>

NextEval == GetEval \/ EvalPosition

SpecEval == InitEval /\ [][NextEval]_vars

\* C26: get_eval returns the score from White's side: with Black to move the
\* engine's score is negated, and get_eval returns the centipawn value that
\* eval_position returns for the same engine output and move history.
C26_EvalFromWhitesSide ==
    call.op = "get_eval" =>
        call.value = eval_position(E, call.moves, call.lines).cp

----------------------------------------------------------------------------
(* RoundRobinPairing: the colours of the fixed player *)

\* the colours player p has in the games of one round
colours_in(round_pairs, p) ==
    {"w" : k \in {k \in 1..Len(round_pairs) : round_pairs[k][1] = p}}
    \cup {"b" : k \in {k \in 1..Len(round_pairs) : round_pairs[k][2] = p}}

\* C27: in the schedule of the circle method the fixed player, the first of
\* the list, changes colour from each round to the next: White in one round,
\* Black in the following one.
C27_FixedColourAlternates ==
    call.op = "generate_all_rounds" =>
        LET sched == call.value
            fixed == call.players[1]
        IN  \A r \in 1..(Len(sched) - 1) :
               \A c \in colours_in(sched[r], fixed) :
                  c \notin colours_in(sched[r + 1], fixed)

----------------------------------------------------------------------------
(* Board: castling *)

\* the castling moves among the legal moves: a king leaving the e-file for
\* the g-file or the c-file
castling_moves(b, legal) ==
    {m \in legal : /\ lower(b.board[m[1]][m[2]]) = "k"
                   /\ m[2] = 4 /\ m[4] \in {2, 6}}

\* what the claim asks of castling move m of the side to move
castling_in_order(b, m) ==
    LET g      == b.board
        white  == b.turn = "w"
        home   == IF white THEN 7 ELSE 0
        short  == m[4] = 6
        right  == IF white THEN (IF short THEN "K" ELSE "Q")
                  ELSE (IF short THEN "k" ELSE "q")
        rook_c == IF short THEN 7 ELSE 0
        between == IF short THEN {5, 6} ELSE {1, 2, 3}
        passed  == IF short THEN {4, 5, 6} ELSE {4, 3, 2}
    IN  /\ right \in b.castling
        /\ m[1] = home /\ m[3] = home
        /\ g[home][4] = (IF white THEN "K" ELSE "k")
        /\ g[home][rook_c] = (IF white THEN "R" ELSE "r")
        /\ \A c \in between : g[home][c] = "."
        /\ \A c \in passed : ~is_attacked(g, home, c, Opp(b.turn))

\* C28: a castling move is among the legal moves only if its right is in the
\* castling-rights set, king and rook stand on their home squares, the
\* squares between them are empty, and the opponent attacks none of the
\* king's start, passing and destination squares.
C28_CastlingOnlyInOrder ==
    \A legal \in {legal_moves(B)} :
       \A m \in castling_moves(B, legal) : castling_in_order(B, m)

\* after a move of each side White can still castle on one side and no
\* longer on the other
C28_Witness ==
    /\ Len(B.move_history) = 2
    /\ B.turn = "w"
    /\ \E legal \in {legal_moves(B)} :
          /\ Cardinality(castling_moves(B, legal)) = 1
          /\ \A m \in castling_moves(B, legal) : castling_in_order(B, m)

----------------------------------------------------------------------------
(* Board: the halfmove clock and the en-passant target *)

\* the number of men on the grid
men_count(b) == Cardinality({s \in Squares : b.board[s[1]][s[2]] # "."})

\* the squares a move string names: (row, column) of its start and its end
uci_from(uci) == <<8 - IntOf(uci[2]), OrdMinusA(uci[1])>>
uci_to(uci) == <<8 - IntOf(uci[4]), OrdMinusA(uci[3])>>

\* C29: after a legal move the halfmove clock is 0 if a pawn moved or a man
\* was taken (en passant included) and one more than before otherwise; the
\* en-passant target is the square a pawn has just jumped over in a
\* two-square push, and is cleared by every other move.
C29_ClockAndEnPassant ==
    [][Len(B'.move_history) = Len(B.move_history) + 1 =>
         LET uci   == B'.move_history[Len(B'.move_history)][1]
             from  == uci_from(uci)
             to    == uci_to(uci)
             pawn  == lower(B.board[from[1]][from[2]]) = "p"
             taken == men_count(B') < men_count(B)
             jump  == pawn /\ (from[1] - to[1] = 2 \/ to[1] - from[1] = 2)
         IN  /\ B'.halfmove = (IF pawn \/ taken THEN 0 ELSE B.halfmove + 1)
             /\ B'.ep = (IF jump
                         THEN SquareName((from[1] + to[1]) \div 2, from[2])
                         ELSE <<"-">>)]_vars

\* a quiet move took the clock to 1 and cleared the en-passant target, and
\* the capture that answered it has set the clock back to 0
C29_Witness ==
    /\ Len(B.move_history) = 2
    /\ B.move_history[1][3].halfmove = 1
    /\ B.move_history[1][3].ep = <<"-">>
    /\ \E i \in 1..Len(B.move_history[2][2]) : B.move_history[2][2][i] = "x"
    /\ B.halfmove = 0 /\ B.ep = <<"-">>

----------------------------------------------------------------------------
(* Tournament.advance_round as the runner threads reach it *)

\* the rounds are used up, or at most one knockout survivor is left
rounds_exhausted(t) ==
    IF t.format = FORMAT_KNOCKOUT THEN Len(t.ko_pending_winners) <= 1
    ELSE t.current_round >= t.rounds

\* C30: advance_round is called only when every game of the current round is
\* done; it finishes the tournament exactly when the rounds are exhausted or
\* at most one knockout survivor remains, and otherwise generates exactly
\* one new round; in Swiss and round robin current_round never exceeds the
\* number of rounds.
C30_AdvanceRound ==
    /\ [](T.format # FORMAT_KNOCKOUT => T.current_round <= T.rounds)
    /\ [][\A id \in ThreadIds :
             Steps(id) /\ R.th[id].pc = "advance" =>
                /\ round_complete(T)
                /\ IF rounds_exhausted(T)
                   THEN T'.finished /\ T'.current_round = T.current_round
                   ELSE /\ T'.finished = T.finished
                        /\ T'.current_round = T.current_round + 1]_vars

----------------------------------------------------------------------------
(* Tournament: the tie-breaks of a Swiss tournament *)

RECURSIVE SumOver(_, _)
\* the sum of f over the set S
SumOver(f, S) ==
    IF S = {} THEN 0
    ELSE LET x == CHOOSE y \in S : TRUE IN f[x] + SumOver(f, S \ {x})

\* the sum of the scores the opponents of p have now, byes left out, one
\* term for each game played against them
buchholz_now(t, p) ==
    LET opp == t.players[p].opponents
        met == {k \in 1..Len(opp) : opp[k] # BYE}
    IN  SumOver([k \in met |-> t.players[opp[k]].score], met)

\* the sum over the done games of p of the result of p in the game (in half
\* points) times the score the opponent has now
sonneborn_now(t, p) ==
    LET mine == {k \in 1..Len(t.all_games) :
                    /\ t.all_games[k].status = "done"
                    /\ t.all_games[k].result \in {"1-0", "0-1", "1/2-1/2"}
                    /\ p \in {t.all_games[k].white, t.all_games[k].black}}
        term(k) ==
            LET g == t.all_games[k]
            IN  IF g.white = p
                THEN white_score(g) * t.players[g.black].score
                ELSE black_score(g) * t.players[g.white].score
    IN  SumOver([k \in mine |-> term(k)], mine)

\* C31: after each advance_round of a Swiss tournament every player's
\* Buchholz is the sum of the current scores of the player's opponents, byes
\* excluded, and every player's Sonneborn-Berger is the sum over the
\* player's done games of the player's result times the opponent's current
\* score.
C31_TieBreaksCurrent ==
    [][call'.op = "advance_round" /\ T'.format = FORMAT_SWISS =>
          \A p \in DOMAIN T'.players :
             /\ T'.players[p].buchholz = buchholz_now(T', p)
             /\ T'.players[p].sonneborn = sonneborn_now(T', p)]_vars

----------------------------------------------------------------------------
(* SpecBook: the move loop of _play_game in a game with an opening book.   *)
(* The engines answer with the moves of one opening line; the book, a      *)
(* collaborator, has for every position nothing, the move of the line, or  *)
(* a well-formed move that is not legal.                                   *)

\* MAX_BOOK_MOVES of _play_game
MAX_BOOK_MOVES == 20

\* the longest game played
MaxBookPly == 22

\* a line of the Ruy Lopez, long enough to leave the opening
BookLine ==
    << <<"e","2","e","4">>, <<"e","7","e","5">>, <<"g","1","f","3">>,
       <<"b","8","c","6">>, <<"f","1","b","5">>, <<"a","7","a","6">>,
       <<"b","5","a","4">>, <<"g","8","f","6">>, <<"e","1","g","1">>,
       <<"f","8","e","7">>, <<"f","1","e","1">>, <<"b","7","b","5">>,
       <<"a","4","b","3">>, <<"d","7","d","6">>, <<"c","2","c","3">>,
       <<"e","8","g","8">>, <<"h","2","h","3">>, <<"c","6","a","5">>,
       <<"b","3","c","2">>, <<"c","7","c","5">>, <<"d","2","d","4">>,
       <<"d","8","c","7">>, <<"b","1","d","2">>, <<"c","5","d","4">> >>

\* a move string _book_probe lets through that is legal nowhere in the line
BookBlunder == <<"e","2","e","5">>

\* the entry of the board after the first k moves of BookLine
RECURSIVE line_after(_)
line_after(k) ==
    IF k = 0 THEN script_entry(NewBoard)
    ELSE entry_after(line_after(k - 1), BookLine[k])

\* the boards of the line, each with its legal moves
LineTable == [k \in 1..Len(BookLine) |-> line_after(k - 1)]

\* what _book_probe can return for the board after ply moves: None, or a
\* string its pattern accepts
book_probe(ply) == {NoMove, BookLine[ply + 1], BookBlunder}

\* the locals of _play_game the loop keeps: book_moves_used, and for the
\* latest pass what the book returned, who supplied the move applied, and
\* the result when the pass ended the game
NewBookGame ==
    [op |-> "__init__", raised |-> FALSE, book_moves_used |-> 0,
     raw |-> NoMove, source |-> "none", result |-> ""]

InitBook ==
    /\ B = NewBoard
    /\ call = NewBookGame
    /\ T = NoTournament
    /\ R = NoRunner
    /\ E = NewEngine

\* one pass of the loop: the game-over test, legal_ucis, the book, the
\* engine of the side to move, the legality test and apply_uci
BookTurn ==
    /\ call.result = ""
    /\ Len(B.move_history) < MaxBookPly
    /\ \E ply \in {Len(B.move_history)} :
       \E entry \in {LineTable[ply + 1]} :
       \E gr \in {game_result_with(B, entry.legal)} :
       \E ucis \in {{UciOf(mv) : mv \in entry.legal}} :
       \E raw \in book_probe(ply) :
          IF gr.over
          THEN /\ call' = [call EXCEPT !.op = "game_over", !.raw = NoMove,
                                       !.source = "none", !.result = gr.result]
               /\ UNCHANGED <<B, T, R, E>>
          ELSE
          LET probed   == call.book_moves_used < MAX_BOOK_MOVES
              from_book == probed /\ raw # NoMove /\ raw \in ucis
              answer   == IF from_book THEN raw ELSE BookLine[ply + 1]
              uci      == checked_uci(answer, ucis)
          IN  IF uci = NoMove
              THEN /\ call' = [call EXCEPT
                                  !.op = "forfeit",
                                  !.raw = IF probed THEN raw ELSE NoMove,
                                  !.source = "none",
                                  !.result = forfeit_result(B.turn = "w")]
                   /\ UNCHANGED <<B, T, R, E>>
              ELSE \E applied \in {apply_uci_with(B, uci, entry.legal)} :
                   /\ B' = applied.b
                   /\ call' = [call EXCEPT
                                  !.op = "apply_uci",
                                  !.raised = applied.raised,
                                  !.book_moves_used =
                                      IF from_book THEN @ + 1 ELSE @,
                                  !.raw = IF probed THEN raw ELSE NoMove,
                                  !.source = IF from_book THEN "book"
                                             ELSE "engine"]
                   /\ UNCHANGED <<T, R, E>>

SpecBook == InitBook /\ [][BookTurn]_vars

\* C32: a book move is applied only within the first 20 plies of a game,
\* and a book suggestion that is not a legal move is never applied and never
\* forfeits the game: the engine of the side to move is asked instead.
C32_BookWithinOpening ==
    [][/\ call'.source = "book" => Len(B'.move_history) <= MAX_BOOK_MOVES
       /\ call'.raw = BookBlunder =>
             /\ call'.source = "engine" /\ call'.result = ""
             /\ B'.move_history[Len(B'.move_history)][1] # BookBlunder]_vars

----------------------------------------------------------------------------
(* SpecAnswer: the move loop of _play_game without a book, on positions    *)
(* with promotions, castling and en passant; the engine of the side to     *)
(* move answers with any string, legal or not.                             *)

\* the longest game played
MaxAnswerPly == 2

\* what get_best_move can return once stripped and lowered, given the legal
\* set: a legal move, a legal move cut to four or three characters, a move
\* with a promotion letter it should not have, or a move of no piece
answers(ucis) ==
    ucis
    \cup {SubSeq(m, 1, 4) : m \in ucis}
    \cup {SubSeq(m, 1, 3) : m \in ucis}
    \cup {SubSeq(m, 1, 4) \o <<"q">> : m \in ucis}
    \cup {SubSeq(m, 1, 4) \o <<"k">> : m \in ucis}
    \cup {IllegalUci}

InitAnswer ==
    /\ \E pos \in SanPositions : B = san_board(pos)
    /\ call = [op |-> "__init__", raised |-> FALSE, uci |-> NoMove,
               result |-> ""]
    /\ T = NoTournament
    /\ R = NoRunner
    /\ E = NewEngine

\* one pass of the loop: the game-over test, legal_ucis, the engine's
\* answer, the legality test and apply_uci
AnswerTurn ==
    /\ call.result = ""
    /\ Len(B.move_history) < MaxAnswerPly
    /\ \E legal \in {legal_moves(B)} :
       \E gr \in {game_result_with(B, legal)} :
       \E ucis \in {{UciOf(mv) : mv \in legal}} :
          IF gr.over
          THEN /\ call' = [call EXCEPT !.op = "game_over", !.uci = NoMove,
                                       !.result = gr.result]
               /\ UNCHANGED <<B, T, R, E>>
          ELSE
          \E answer \in answers(ucis) :
          \E uci \in {checked_uci(answer, ucis)} :
          \E applied \in {IF uci = NoMove THEN [raised |-> TRUE, b |-> B]
                          ELSE apply_uci_with(B, uci, legal)} :
              IF applied.raised
              THEN /\ call' = [call EXCEPT
                                  !.op = "forfeit", !.uci = answer,
                                  !.result = forfeit_result(B.turn = "w")]
                   /\ UNCHANGED <<B, T, R, E>>
              ELSE /\ B' = applied.b
                   /\ call' = [call EXCEPT !.op = "apply_uci",
                                           !.uci = answer]
                   /\ UNCHANGED <<T, R, E>>

SpecAnswer == InitAnswer /\ [][AnswerTurn]_vars

\* C33: an answer that is not in the legal set is played only when it has
\* exactly four characters and is legal with "q" appended, and what is
\* played then is that queen promotion; every other answer not in the legal
\* set forfeits the game for the side that gave it and leaves the position
\* as it was.
C33_OnlyQueenCompletion ==
    [][call'.op \in {"apply_uci", "forfeit"}
       /\ call'.uci \notin legal_ucis(B) =>
          IF Len(call'.uci) = 4 /\ (call'.uci \o <<"q">>) \in legal_ucis(B)
          THEN /\ call'.op = "apply_uci"
               /\ Len(B'.move_history) = Len(B.move_history) + 1
               /\ B'.move_history[Len(B'.move_history)][1]
                      = call'.uci \o <<"q">>
               /\ B'.board = apply_uci(B, call'.uci \o <<"q">>).b.board
               /\ \E s \in Squares : /\ lower(B'.board[s[1]][s[2]]) = "q"
                                     /\ lower(B.board[s[1]][s[2]]) # "q"
          ELSE /\ call'.op = "forfeit"
               /\ B' = B
               /\ call'.result = forfeit_result(B.turn = "w")]_vars

\* a four-character answer has been completed to a queen promotion
C33_Witness ==
    /\ call.op = "apply_uci"
    /\ Len(call.uci) = 4
    /\ Len(B.move_history) >= 1
    /\ B.move_history[Len(B.move_history)][1] = call.uci \o <<"q">>

----------------------------------------------------------------------------
(* Properties of the Runner: a game stopped before its end *)

\* C34: a game is marked done only after a terminal position or a forfeit:
\* every game with status done that was started with both engines has a
\* result among 1-0, 0-1 and 1/2-1/2, so a game the stop request interrupted
\* stays to be played.
C34_DoneMeansDecided ==
    \A gi \in 1..Len(T.all_games) :
        LET g == T.all_games[gi]
        IN  g.status = "done" /\ g.reason.kind # "engine failed to start"
                => g.result \in {"1-0", "0-1", "1/2-1/2"}

----------------------------------------------------------------------------
(* Properties of the knockout bracket *)

\* C35: in a knockout, whenever a round is complete every roster player is
\* in exactly one of the eliminated list and the pending-winners list,
\* whatever the results handed over, and the round advance_round generates
\* next pairs every pending winner.
C35_BracketKeepsEveryone ==
    /\ [](T.format = FORMAT_KNOCKOUT /\ T.started /\ ~T.finished
          /\ round_complete(T) =>
             \A p \in Range(T.player_list) :
                Count(T.ko_eliminated, p) + Count(T.ko_pending_winners, p) = 1)
    /\ [][call'.op = "advance_round" /\ T.format = FORMAT_KNOCKOUT
          /\ ~T'.finished =>
             \A p \in Range(T.ko_pending_winners) :
                \E k \in 1..Len(T'.round_games) :
                    p \in {T'.all_games[T'.round_games[k]].white,
                           T'.all_games[T'.round_games[k]].black}]_vars

----------------------------------------------------------------------------
(* SpecRequest: move and evaluation requests, one after another, to a      *)
(* process that stays alive and answers every "go" it was sent, in order   *)
(* and as late as it likes.  Every line carries the number of the request  *)
(* the process wrote it for.                                               *)

\* the requests made of one engine
MaxRequests == 2

\* the engine object between requests, no request made yet
NewRequester ==
    [pc |-> "idle", op |-> "", req |-> 0, q |-> <<>>, owed |-> <<>>,
     now |-> 0, end |-> 0, last_score |-> 0,
     ret |-> [op |-> "", req |-> 0, from |-> 0]]

InitRequest ==
    /\ B = NewBoard
    /\ call = NoCall
    /\ T = NoTournament
    /\ R = NoRunner
    /\ E = NewRequester

\* get_best_move and eval_position up to the loop: _drain, the position and
\* go commands, the deadline, last_score = None
ReqBegin ==
    /\ E.pc = "idle"
    /\ E.req < MaxRequests
    /\ E.now + MoveTimeout <= MaxTime
    /\ \E op \in {"get_best_move", "eval_position"} :
          E' = [E EXCEPT !.pc = "wait", !.op = op, !.req = @ + 1,
                         !.q = <<>>, !.owed = Append(@, E.req + 1),
                         !.end = E.now + MoveTimeout, !.last_score = 0]
    /\ UNCHANGED <<B, call, T, R>>

\* the request returns: the move of the line it ended on, or the last score
ReqReturned(e, from) ==
    [e EXCEPT !.pc = "idle",
              !.ret = [op |-> e.op, req |-> e.req,
                       from |-> IF e.op = "get_best_move" THEN from
                                ELSE e.last_score]]

\* the loop test fails
ReqExpired ==
    /\ E.pc = "wait"
    /\ wait_expired(E)
    /\ E' = ReqReturned(E, 0)
    /\ UNCHANGED <<B, call, T, R>>

\* q.get returns a line: an info line gives eval_position its score, a
\* bestmove line ends the loop
ReqLine ==
    /\ E.pc = "wait"
    /\ ~wait_expired(E)
    /\ E.q # <<>>
    /\ LET line == Head(E.q)
           e1   == [E EXCEPT !.q = Tail(E.q)]
       IN  E' = IF line.kind = "info"
                THEN [e1 EXCEPT !.last_score =
                         IF E.op = "eval_position" THEN line.req ELSE @]
                ELSE ReqReturned(e1, line.req)
    /\ UNCHANGED <<B, call, T, R>>

\* q.get times out
ReqEmpty ==
    /\ E.pc = "wait"
    /\ ~wait_expired(E)
    /\ E.q = <<>>
    /\ E' = [E EXCEPT !.now = @ + 1]
    /\ UNCHANGED <<B, call, T, R>>

\* the process writes a line of the search it is in and _reader queues it:
\* an info line with a score, or the bestmove line that ends the search
ProcEmit ==
    /\ E.owed # <<>>
    /\ Len(E.q) < MaxQueue
    /\ \/ E' = [E EXCEPT !.q = Append(@, [kind |-> "info",
                                          req |-> Head(E.owed)])]
       \/ E' = [E EXCEPT !.q = Append(@, [kind |-> "bestmove",
                                          req |-> Head(E.owed)]),
                         !.owed = Tail(@)]
    /\ UNCHANGED <<B, call, T, R>>

NextRequest == ReqBegin \/ ReqExpired \/ ReqLine \/ ReqEmpty \/ ProcEmit

SpecRequest == InitRequest /\ [][NextRequest]_vars

\* C36: the move a move request returns and the score an evaluation request
\* returns are taken only from lines the process wrote in response to that
\* request, never from a line of an earlier request queued after the drain.
C36_AnswerFromOwnRequest ==
    E.ret.from \in {0, E.ret.req}

----------------------------------------------------------------------------
(* Properties of UCIEngine: the readiness flag *)

\* C37: ready is true only if the whole handshake succeeded: when start()
\* has failed with RuntimeError the engine is not ready, and after stop() it
\* is neither ready nor alive.
C37_ReadyOnlyAfterHandshake ==
    /\ E.pc = "idle" /\ E.ret.op = "start" /\ E.ret.raised = "RuntimeError"
          => ~E.ready
    /\ E.pc = "idle" /\ E.ret.op = "stop" => ~E.ready /\ ~alive(E)

----------------------------------------------------------------------------
(* Properties of the rounds the Controller generates *)

\* the players of the games of the current round, one entry per seat
round_seats(t) ==
    [k \in 1..(2 * Len(t.round_games)) |->
        IF k % 2 = 1 THEN t.all_games[t.round_games[(k + 1) \div 2]].white
        ELSE t.all_games[t.round_games[(k + 1) \div 2]].black]

\* the players given a bye by the call that took the tournament from t to
\* t1: in a Swiss round the one recorded against BYE, in the first round of
\* a knockout the survivors entered for the second round
round_byes(t, t1) ==
    {p \in Range(t1.player_list) :
        \/ Count(t1.players[p].opponents, BYE)
              > Count(t.players[p].opponents, BYE)
        \/ /\ t1.format = FORMAT_KNOCKOUT /\ t1.current_round = 1
           /\ p \in Range(t1.ko_pending_winners)}

\* C38: in every round the Controller generates, in all three formats, no
\* player is in more than one game of the round, no game pairs a player
\* with itself, and a player given a bye in the round is in no game of it.
C38_RoundsWellFormed ==
    [][call'.op \in {"start", "advance_round"}
       /\ T'.current_round = T.current_round + 1 =>
          /\ \A p \in Range(T'.player_list) : Count(round_seats(T'), p) <= 1
          /\ \A k \in 1..Len(T'.round_games) :
                T'.all_games[T'.round_games[k]].white
                    # T'.all_games[T'.round_games[k]].black
          /\ \A p \in round_byes(T, T') :
                \A k \in 1..Len(round_seats(T')) : round_seats(T')[k] # p]_vars

\* the second round of a Swiss tournament of five has been generated, with
\* two games and a bye for a player other than the one of the first round
C38_Witness ==
    /\ call.op = "advance_round"
    /\ T.format = FORMAT_SWISS /\ Len(T.player_list) = 5
    /\ T.current_round = 2 /\ Len(T.round_games) = 2
    /\ Cardinality({p \in Range(T.player_list) :
                       BYE \in Range(T.players[p].opponents)}) = 2

----------------------------------------------------------------------------
(* SpecRunnerLive: one press of Start and no Stop; the thread of the       *)
(* runner is scheduled for as long as it has a step to take, and its two   *)
(* pause loops, which poll the flag ten times a second, get through        *)
(* whenever the flag is down again and again.  Every move request returns. *)

\* the tournaments run to their end: the two of SpecRunner and a Swiss
\* tournament of two players and one round
LiveTournaments ==
    RunnerTournaments \cup {NewTournament(FORMAT_SWISS, 2, 1, FALSE)}

InitRunnerLive ==
    /\ B = NewBoard
    /\ call = NoCall
    /\ T \in LiveTournaments
    /\ R = NoRunner
    /\ E = NewEngine

\* a step of the runner's thread outside its pause loops
RunStep ==
    \/ RunBegin("cur")
    \/ LoopTest("cur")
    \/ NextGame("cur")
    \/ AdvanceRound("cur")
    \/ PlayBegin("cur")
    \/ StartEngines("cur")
    \/ StopCheck("cur")
    \/ Turn("cur")
    \/ Answer("cur")
    \/ CheckAndApply("cur")
    \/ GameEnd("cur")
    \/ AfterPlay("cur")
    \/ Exit("cur")

NextRunnerLive ==
    \/ WStart
    \/ WPause
    \/ RunStep
    \/ PauseWait("cur")
    \/ GamePause("cur")
    \/ EngineDies("cur")

SpecRunnerLive ==
    /\ InitRunnerLive
    /\ [][NextRunnerLive]_vars
    /\ WF_vars(RunStep)
    /\ SF_vars(PauseWait("cur"))
    /\ SF_vars(GamePause("cur"))

====
